---- MODULE Spec2Model ----
(***************************************************************************)
(* HBIClipboard: the clipboard capture and history engine.                 *)
(*                                                                         *)
(*   ClipboardMonitor  (clipboard-monitor, in src/src/renderer/renderer.js *)
(*                      lines 478-699): the poller and the classifier      *)
(*   ClipboardManager  (src/src/main.js): the history store, the IPC       *)
(*                      handlers, the window placement and the session     *)
(*                                                                         *)
(* Texts are sequences of one-character strings, so that the regular       *)
(* expressions of the monitor are computed, not assumed.  Images are named *)
(* by their pixel content; toPNG is injective on it.                       *)
(***************************************************************************)
EXTENDS Integers, Sequences, FiniteSets, TLC

\* ------------------------------------------------------------------ bounds
\* Clock readings the model runs through: one per poll period.
MaxClock == 4
\* Poll ticks the engine runs through.
MaxTicks == 3
\* Largest history limit the settings offer (the real list goes up to 50+).
MaxLimit == 2
\* Windows that exist at one time.
MaxWindows == 2
\* Destroyed windows whose loadFile() is still to reject, at one time.
MaxStale == 1
\* the pending timeouts of registerGlobalShortcut
MaxRetries == 2

\* --------------------------------------------------------------- constants
DefaultHistoryLimit == 50
PreviewMax == 100
PreviewCut == 97
\* the surface, in pixels
WindowWidth == 400
WindowHeight == 500
\* delays and ages of the session, in units of 100 ms
FallbackDelay == 1
RecheckDelay == 2
DebounceAge == 3
GraceAge == 5
CloseDelay == 28

VARIABLES
  \* ClipboardManager, the store
  clipboardHistory,      \* this.clipboardHistory
  storeHistory,          \* this.store 'clipboardHistory'
  storeLimit,            \* this.store 'historyLimit' (Unset: never written)
  notificationsEnabled,  \* this.store 'notificationsEnabled'
  clock,                 \* Date.now(), in poll periods
  \* the system clipboard
  sysText, sysImage, sysFormats,
  \* ClipboardMonitor
  isMonitoring, lastClipboardContent, lastClipboardImage, lastContainedFiles,
  \* the session
  clipboardWindow,       \* this.clipboardWindow (0: null)
  closeTimers,           \* pending setTimeout(destroyClipboardWindow, 2800):
                         \* the time each has left
  isWindowInitializing,  \* this.isWindowInitializing
  windowCreationAge,     \* Date.now() - this.windowCreationTime, up to
                         \* GraceAge (null reads as 0: as old as can be)
  shortcutAge,           \* Date.now() - this.lastShortcutTrigger, up to
                         \* DebounceAge
  globalShortcut,        \* the accelerator globalShortcut holds and whether
                         \* its callback is the one that debounces
  keyboardShortcut,      \* this.store 'keyboardShortcut', its default applied
  retryTimers,           \* how many setTimeout of registerGlobalShortcut
                         \* are pending
  timers,                \* pending setTimeout of the fallback show and of
                         \* the blur re-check: kind and time left
  loads,                 \* windows whose loadFile() is still to settle: the
                         \* suspended calls of showClipboardWindow
  staleLoads,            \* how many loadFile() of destroyed windows are
                         \* still to reject
  \* the BrowserWindows
  liveWindows,           \* created and not destroyed
  visibleWindows,        \* isVisible()
  focusedWindow,         \* the one that isFocused() (0: none)
  handledWindows,        \* with the 'blur' and 'closed' handlers
  readyPending,          \* whose 'ready-to-show' is still to fire
  \* the placement
  displays,              \* screen.getAllDisplays(), the primary first
  cursorPoint,           \* screen.getCursorScreenPoint()
  lastCursorPosition,    \* this.lastCursorPosition
  windowFollowsCursor,   \* this.store 'windowFollowsCursor'
  windowPosition,        \* the x, y the last window was created at
  \* what the last handler did
  lastOp,                \* the handler that ran, its argument and its outcome
  triggerAge,            \* the time since a callback of the shortcut last
                         \* went on to showClipboardWindow, up to DebounceAge
  sent                   \* the messages it sent to the surface, in order

storeVars == <<clipboardHistory, storeHistory, storeLimit, notificationsEnabled>>
sysVars == <<sysText, sysImage, sysFormats>>
monitorVars == <<isMonitoring, lastClipboardContent, lastClipboardImage, lastContainedFiles>>
windowVars == <<isWindowInitializing, windowCreationAge, liveWindows, visibleWindows,
                focusedWindow, handledWindows, readyPending>>
placeVars == <<displays, cursorPoint, lastCursorPosition, windowFollowsCursor,
               windowPosition>>
shortcutVars == <<globalShortcut, keyboardShortcut, retryTimers>>
sessionVars == <<clipboardWindow, closeTimers, windowVars, shortcutAge, triggerAge,
                 shortcutVars, timers, loads, staleLoads, placeVars>>
vars == <<storeVars, clock, sysVars, monitorVars, sessionVars, lastOp, sent>>

\* ------------------------------------------------------------------- texts
NoText == <<>>
TextA == <<"a">>
TextB == <<"b", " ", " ", "c">>
TextRich == <<"<", "i", ">">>
TextPath == <<"/", "a", ".", "t">>
Undefined == <<"undefined">>

WhiteSpace == {" ", "\n", "\t"}
LowerCase == {"a", "b", "c", "e", "f", "i", "l", "r", "t"}
UpperCase == {"C"}
Digits == {"1"}
WordChars == LowerCase \cup UpperCase \cup Digits \cup {"_"}

\* s.substring(from, to), 0-based, to exclusive
Substring(s, from, to) ==
  SubSeq(s, from + 1, IF to > Len(s) THEN Len(s) ELSE to)

\* text.replace(/\s+/g, ' ')
RECURSIVE DropSpace(_)
DropSpace(s) ==
  IF s # <<>> /\ Head(s) \in WhiteSpace THEN DropSpace(Tail(s)) ELSE s

CollapseSpace(s) ==
  LET at == SelectSeq([ i \in 1..Len(s) |-> i ],
                      LAMBDA i : \/ s[i] \notin WhiteSpace
                                 \/ i = 1
                                 \/ s[i - 1] \notin WhiteSpace)
  IN [ k \in 1..Len(at) |-> IF s[at[k]] \in WhiteSpace THEN " " ELSE s[at[k]] ]

RECURSIVE DropSpaceEnd(_)
DropSpaceEnd(s) ==
  IF s # <<>> /\ s[Len(s)] \in WhiteSpace
  THEN DropSpaceEnd(SubSeq(s, 1, Len(s) - 1)) ELSE s

Trim(s) == DropSpaceEnd(DropSpace(s))

\* as createTextPreview, cutting at the length it compares with
createTextPreviewCutsAtMax(text) ==
  IF text = NoText THEN NoText
  ELSE LET cleaned == Trim(CollapseSpace(text)) IN
       IF Len(cleaned) > PreviewMax
       THEN Substring(cleaned, 0, PreviewMax) \o <<".", ".", ".">>
       ELSE cleaned

\* createTextPreview(text), renderer.js 581-593
createTextPreview(text) ==
  IF text = NoText THEN NoText
  ELSE LET cleaned == Trim(CollapseSpace(text)) IN
       IF Len(cleaned) > PreviewMax
       THEN Substring(cleaned, 0, PreviewCut) \o <<".", ".", ".">>
       ELSE cleaned

\* The lines of a text: the maximal runs without "\n" (the m flag of the
\* file-path patterns makes ^ and $ match at every line).
IsLine(s, i, j) ==
  /\ 1 <= i /\ i <= j + 1 /\ j <= Len(s)
  /\ (i = 1 \/ s[i - 1] = "\n")
  /\ (j = Len(s) \/ s[j + 1] = "\n")
  /\ \A k \in i..j : s[k] # "\n"

Lines(s) == { SubSeq(s, i, j) : <<i, j>> \in
                { p \in (1..Len(s) + 1) \X (0..Len(s)) : IsLine(s, p[1], p[2]) } }

StartsWith(s, p) == Len(s) >= Len(p) /\ SubSeq(s, 1, Len(p)) = p
HasInfix(s, p) == \E i \in 1..(Len(s) - Len(p) + 1) : SubSeq(s, i, i + Len(p) - 1) = p

\* a line ending in \.([\w]+)$ from position k on (k: where the dot is)
EndsWithExtension(l, from) ==
  \E k \in from..(Len(l) - 1) :
     /\ l[k] = "."
     /\ \A m \in (k + 1)..Len(l) : l[m] \in WordChars

\* /^\/[^\/\n]+.*\.([\w]+)$/m
UnixPathLine(l) ==
  /\ Len(l) >= 4 /\ l[1] = "/" /\ l[2] # "/"
  /\ EndsWithExtension(l, 3)

\* /^[A-Z]:\\.*\.([\w]+)$/m
WindowsPathLine(l) ==
  /\ Len(l) >= 5 /\ l[1] \in UpperCase /\ l[2] = ":" /\ l[3] = "\\"
  /\ EndsWithExtension(l, 4)

\* /^file:\/\/\//m
FileUrlLine(l) == StartsWith(l, <<"f", "i", "l", "e", ":", "/", "/", "/">>)

isFilePath(text) ==
  \E l \in Lines(text) : UnixPathLine(l) \/ WindowsPathLine(l) \/ FileUrlLine(l)

\* /<[^>]+>/
HasTag(s) ==
  \E i \in 1..Len(s) : \E j \in (i + 2)..Len(s) :
     /\ s[i] = "<" /\ s[j] = ">"
     /\ \A k \in (i + 1)..(j - 1) : s[k] # ">"

\* /&[a-zA-Z]+;/
HasEntity(s) ==
  \E i \in 1..Len(s) : \E j \in (i + 2)..Len(s) :
     /\ s[i] = "&" /\ s[j] = ";"
     /\ \A k \in (i + 1)..(j - 1) : s[k] \in LowerCase \cup UpperCase

isRichText(text) ==
  /\ text # NoText
  /\ \/ HasTag(text)
     \/ HasEntity(text)
     \/ HasInfix(text, <<"{", "\\", "r", "t", "f", "1">>)
     \/ HasInfix(text, <<"{", "\\", "c", "o", "l", "o", "r", "t", "b", "l">>)


\* ------------------------------------------------------------------ images
EmptyImage == "empty"
Image1 == "img1"
Image2 == "img2"
\* an image whose PNG encoding throws
BadImage == "bad"

isEmpty(img) == img = EmptyImage
ToPNGThrows(img) == img = BadImage
toPNG(img) == <<"png", img>>
Base64(buffer) == <<"base64">> \o buffer
\* Buffer.from(s, 'base64')
FromBase64(s) == Tail(s)
\* nativeImage.createFromBuffer(buffer): empty unless the buffer is a PNG
createFromBuffer(buffer) ==
  IF Len(buffer) = 2 /\ buffer[1] = "png" THEN buffer[2] ELSE EmptyImage

imageToDataUrl(img) ==
  IF ToPNGThrows(img) THEN <<"null">>
  ELSE <<"data:image/png;base64,">> \o Base64(toPNG(img))

\* as imagesEqual, comparing only whether the images are empty
imagesEqualByEmptiness(img1, img2) == isEmpty(img1) = isEmpty(img2)

imagesEqual(img1, img2) ==
  IF isEmpty(img1) /\ isEmpty(img2) THEN TRUE
  ELSE IF isEmpty(img1) \/ isEmpty(img2) THEN FALSE
  ELSE IF ToPNGThrows(img1) \/ ToPNGThrows(img2) THEN FALSE
  ELSE toPNG(img1) = toPNG(img2)

\* ----------------------------------------------------- the system clipboard
FileMarker == "public.file-url"

\* the formats a clipboard holding this text and this image offers
BaseFormats(text, img) ==
  (IF text # NoText THEN {"text/plain"} ELSE {}) \cup
  (IF ~isEmpty(img) THEN {"image/png"} ELSE {})

fileFormats ==
  { "text/uri-list", "application/x-moz-file", "files", "nsfilenamespboardtype",
    "public.file-url", "corepasteboardflavortype 0x6675726c",
    "dyn.ah62d4rv4gu8yc6durvwwa3xmrvw1gkdusm1044pxqyuha2pxsvw0e55bsmwca7d3sbwu" }

\* a.toLowerCase().includes(b.toLowerCase()), on the format names of the model:
\* none of "text/plain", "image/png" and the file formats is inside another.
Includes(a, b) == a = b

hasFileFormats(formats) ==
  \E format \in formats : \E fileFormat \in fileFormats :
     Includes(format, fileFormat) \/ Includes(fileFormat, format)

\* as containsFiles, without the check of the text
containsFilesByFormat(formats, text) == hasFileFormats(formats)

containsFiles(formats, text) ==
  \/ hasFileFormats(formats)
  \/ text # NoText /\ isFilePath(text)

\* --------------------------------------------------------- the history store
Unset == 0
historyLimit == IF storeLimit = Unset THEN DefaultHistoryLimit ELSE storeLimit

NumberToString(n) == <<"id", n>>

\* what the monitor emits with 'change'
TextData(text) ==
  [ type |-> IF isRichText(text) THEN "richtext" ELSE "text",
    text |-> text,
    preview |-> createTextPreview(text),
    isRichText |-> isRichText(text),
    imageBuffer |-> Undefined,
    dataUrl |-> Undefined ]

ImageData(img) ==
  [ type |-> "image",
    text |-> Undefined,
    preview |-> <<"I", "m", "a", "g", "e">>,
    isRichText |-> FALSE,
    imageBuffer |-> toPNG(img),
    dataUrl |-> imageToDataUrl(img) ]

NoData ==
  [ type |-> "none", text |-> Undefined, preview |-> Undefined,
    isRichText |-> FALSE, imageBuffer |-> Undefined, dataUrl |-> Undefined ]

\* as KeepItem, but images are compared by reference and never found equal
KeepItemImagesDiffer(item, clipboardData) ==
  IF item.type # clipboardData.type THEN TRUE
  ELSE IF item.type = "text" \/ item.type = "richtext"
       THEN item.text # clipboardData.text
  ELSE TRUE

\* as KeepItem, dropping nothing
KeepItemAlways(item, clipboardData) == TRUE

\* the filter of addToHistory: FALSE drops the item
KeepItem(item, clipboardData) ==
  IF item.type # clipboardData.type THEN TRUE
  ELSE IF item.type = "text" \/ item.type = "richtext"
       THEN item.text # clipboardData.text
  ELSE IF item.type = "image" THEN item.dataUrl # clipboardData.dataUrl
  ELSE TRUE

\* as newItem, the id taken from the kind of the content
newItemIdOfType(clipboardData, now) ==
  [ type |-> clipboardData.type,
    text |-> clipboardData.text,
    preview |-> clipboardData.preview,
    isRichText |-> clipboardData.isRichText,
    dataUrl |-> clipboardData.dataUrl,
    imageBufferBase64 |->
      IF clipboardData.type = "image" /\ clipboardData.imageBuffer # Undefined
      THEN Base64(clipboardData.imageBuffer) ELSE Undefined,
    timestamp |-> now,
    id |-> NumberToString(IF clipboardData.type = "image" THEN 1 ELSE 0) ]

\* the entry addToHistory puts in front, main.js 441-459
newItem(clipboardData, now) ==
  [ type |-> clipboardData.type,
    text |-> clipboardData.text,
    preview |-> clipboardData.preview,
    isRichText |-> clipboardData.isRichText,
    dataUrl |-> clipboardData.dataUrl,
    imageBufferBase64 |->
      IF clipboardData.type = "image" /\ clipboardData.imageBuffer # Undefined
      THEN Base64(clipboardData.imageBuffer) ELSE Undefined,
    timestamp |-> now,
    id |-> NumberToString(now) ]

\* history.slice(0, n), n >= 0
Slice(history, n) == SubSeq(history, 1, IF n < Len(history) THEN n ELSE Len(history))

\* as addToHistoryList, without the slice
addToHistoryListUncut(history, clipboardData, now, limit) ==
  <<newItem(clipboardData, now)>> \o
    SelectSeq(history, LAMBDA item : KeepItem(item, clipboardData))

\* as addToHistoryList, without the filter
addToHistoryListUnfiltered(history, clipboardData, now, limit) ==
  LET unshifted == <<newItem(clipboardData, now)>> \o history
  IN IF Len(unshifted) > limit THEN Slice(unshifted, limit) ELSE unshifted

\* as addToHistoryList, with slice(-limit): the newest entries are cut
addToHistoryListCutsFront(history, clipboardData, now, limit) ==
  LET filtered == SelectSeq(history, LAMBDA item : KeepItem(item, clipboardData))
      unshifted == <<newItem(clipboardData, now)>> \o filtered
  IN IF Len(unshifted) > limit
     THEN SubSeq(unshifted, Len(unshifted) - limit + 1, Len(unshifted))
     ELSE unshifted

\* the list addToHistory computes: filter, unshift, slice
addToHistoryList(history, clipboardData, now, limit) ==
  LET filtered == SelectSeq(history, LAMBDA item : KeepItem(item, clipboardData))
      unshifted == <<newItem(clipboardData, now)>> \o filtered
  IN IF Len(unshifted) > limit THEN Slice(unshifted, limit) ELSE unshifted

\* as Find, finding the first entry when no entry has the id
FindOrFirst(history, itemId) ==
  LET hits == { i \in 1..Len(history) : history[i].id = itemId }
  IN IF history = <<>> THEN 0
     ELSE IF hits = {} THEN 1 ELSE CHOOSE i \in hits : \A j \in hits : i <= j

\* the list select-clipboard-item computes: filter by id, unshift the item found
Find(history, itemId) ==
  LET hits == { i \in 1..Len(history) : history[i].id = itemId }
  IN IF hits = {} THEN 0 ELSE CHOOSE i \in hits : \A j \in hits : i <= j

\* as moveToTop, without the filter
moveToTopUnfiltered(history, itemId) ==
  <<history[Find(history, itemId)]>> \o history

moveToTop(history, itemId) ==
  LET item == history[Find(history, itemId)]
  IN <<item>> \o SelectSeq(history, LAMBDA h : h.id # itemId)

HistoryUpdated(history) ==
  [ channel |-> "history-updated", history |-> history, type |-> "" ]
ShowNotification(type) ==
  [ channel |-> "show-notification", history |-> <<>>, type |-> type ]

NoId == <<"id", 0>>

\* What the last handler did: its name, the change data it was given or emitted
\* (NoData: none), the item id it was given, its outcome, whether it cut the
\* list to the limit, dropped a duplicate, or appended what the front already
\* held, whether a store.set of it threw, and the trigger it came by.
Op(name, data, id, out) ==
  [ name |-> name, data |-> data, id |-> id, out |-> out,
    cut |-> FALSE, deduped |-> FALSE, repeat |-> FALSE, failed |-> FALSE, by |-> "" ]

\* The content of a stored item and of a change: its kind with its text or
\* its encoded image bytes.
ItemContent(item) == <<item.type, item.text, item.imageBufferBase64>>
DataContent(clipboardData) ==
  << clipboardData.type, clipboardData.text,
     IF clipboardData.type = "image" THEN Base64(clipboardData.imageBuffer)
     ELSE Undefined >>

AppendOp(name, clipboardData, history, limit) ==
  LET kept == SelectSeq(history,
                        LAMBDA item : ItemContent(item) # DataContent(clipboardData))
  IN [ Op(name, clipboardData, NoId, "change") EXCEPT
         !.cut = Len(kept) + 1 > limit,
         !.deduped = Len(kept) < Len(history),
         !.repeat = history # <<>> /\ ItemContent(history[1]) = DataContent(clipboardData) ]

\* --------------------------------------------------------------- placement
Rect(x, y, width, height) == [ x |-> x, y |-> y, width |-> width, height |-> height ]
Display(bounds, workArea) == [ bounds |-> bounds, workArea |-> workArea ]
\* this.lastCursorPosition: null or a point
NoCursor == [ kind |-> "null", x |-> 0, y |-> 0 ]
Point(x, y) == [ kind |-> "point", x |-> x, y |-> y ]

Min(a, b) == IF a < b THEN a ELSE b
Max(a, b) == IF a > b THEN a ELSE b

getPrimaryDisplay(ds) == ds[1]

\* screen.getDisplayNearestPoint: the display that holds the point or, when
\* none does, the one closest to it
Gap(lo, hi, v) == IF v < lo THEN lo - v ELSE IF v > hi THEN v - hi ELSE 0
Distance(rect, point) ==
  LET dx == Gap(rect.x, rect.x + rect.width - 1, point.x)
      dy == Gap(rect.y, rect.y + rect.height - 1, point.y)
  IN dx * dx + dy * dy
getDisplayNearestPoint(ds, point) ==
  LET nearest == { i \in 1..Len(ds) :
                     \A j \in 1..Len(ds) :
                        Distance(ds[i].bounds, point) <= Distance(ds[j].bounds, point) }
  IN ds[CHOOSE i \in nearest : \A j \in nearest : i <= j]

\* as calculateWindowPosition, never placing the window left of the cursor
calculateWindowPositionNoFlip(forceTopRight, cursor, followsCursor, ds) ==
  IF ~followsCursor \/ forceTopRight
  THEN LET workArea == getPrimaryDisplay(ds).workArea
       IN [ x |-> workArea.x + workArea.width - 400 - 20,
            y |-> workArea.y + 20 ]
  ELSE IF cursor.kind # "point"
  THEN LET workArea == getPrimaryDisplay(ds).workArea
       IN [ x |-> (workArea.width \div 2) - 200,
            y |-> (workArea.height \div 2) - 250 ]
  ELSE
  LET bounds == getDisplayNearestPoint(ds, cursor).bounds
      x0 == cursor.x + 10
      y0 == cursor.y - 250
      y1 == IF y0 < bounds.y THEN cursor.y + 10 ELSE y0
  IN [ x |-> Max(bounds.x, Min(x0, bounds.x + bounds.width - 400)),
       y |-> Max(bounds.y, Min(y1, bounds.y + bounds.height - 500)) ]

\* calculateWindowPosition(forceTopRight), main.js 366-425, on
\* this.lastCursorPosition, the store's windowFollowsCursor and the displays
calculateWindowPosition(forceTopRight, cursor, followsCursor, ds) ==
  IF ~followsCursor \/ forceTopRight
  THEN LET workArea == getPrimaryDisplay(ds).workArea
       IN [ x |-> workArea.x + workArea.width - 400 - 20,
            y |-> workArea.y + 20 ]
  ELSE IF cursor.kind # "point"
  THEN LET workArea == getPrimaryDisplay(ds).workArea
       IN [ x |-> (workArea.width \div 2) - 200,
            y |-> (workArea.height \div 2) - 250 ]
  ELSE
  LET bounds == getDisplayNearestPoint(ds, cursor).bounds
      x0 == cursor.x + 10
      y0 == cursor.y - 250
      x1 == IF x0 + 400 > bounds.x + bounds.width THEN cursor.x - 410 ELSE x0
      y1 == IF y0 < bounds.y THEN cursor.y + 10 ELSE y0
  IN [ x |-> Max(bounds.x, Min(x1, bounds.x + bounds.width - 400)),
       y |-> Max(bounds.y, Min(y1, bounds.y + bounds.height - 500)) ]

\* ----------------------------------------------------------------- session
\* The fields of the manager and of its windows that the steps of a session
\* read and write, as one value, so that a handler is the composition of its
\* statements.
Session ==
  [ clipboardWindow |-> clipboardWindow,
    isWindowInitializing |-> isWindowInitializing,
    windowCreationAge |-> windowCreationAge,
    liveWindows |-> liveWindows,
    visibleWindows |-> visibleWindows,
    focusedWindow |-> focusedWindow,
    handledWindows |-> handledWindows,
    readyPending |-> readyPending ]

SetSession(s) ==
  /\ clipboardWindow' = s.clipboardWindow
  /\ isWindowInitializing' = s.isWindowInitializing
  /\ windowCreationAge' = s.windowCreationAge
  /\ liveWindows' = s.liveWindows
  /\ visibleWindows' = s.visibleWindows
  /\ focusedWindow' = s.focusedWindow
  /\ handledWindows' = s.handledWindows
  /\ readyPending' = s.readyPending

\* BrowserWindow.destroy() of w: the window is gone and 'closed' is emitted
\* to the handler of main.js 332-335, if it was registered
destroy(s, w) ==
  LET gone == [ s EXCEPT !.liveWindows = @ \ {w},
                         !.visibleWindows = @ \ {w},
                         !.focusedWindow = IF @ = w THEN 0 ELSE @,
                         !.handledWindows = @ \ {w},
                         !.readyPending = @ \ {w} ]
  IN IF w \in s.handledWindows
     THEN [ gone EXCEPT !.clipboardWindow = 0, !.isWindowInitializing = FALSE ]
     ELSE gone

\* as destroyClipboardWindow, dropping the reference without destroying
destroyClipboardWindowDropsOnly(s) ==
  [ s EXCEPT !.clipboardWindow = 0, !.isWindowInitializing = FALSE,
             !.windowCreationAge = GraceAge ]

\* destroyClipboardWindow(), main.js 356-364
destroyClipboardWindow(s) ==
  IF s.clipboardWindow # 0
  THEN [ destroy(s, s.clipboardWindow) EXCEPT !.clipboardWindow = 0,
                                              !.isWindowInitializing = FALSE,
                                              !.windowCreationAge = GraceAge ]
  ELSE s

\* as skipsCreation, skipping also when a window exists
skipsCreationWhenWindow(s) == s.isWindowInitializing \/ s.clipboardWindow # 0

\* the guard of showClipboardWindow, main.js 235-238
skipsCreation(s) == s.isWindowInitializing

\* as ignoresBlur, with no grace
ignoresBlurNever(s) == FALSE

\* the guard of the 'blur' handler, main.js 313-317
ignoresBlur(s) == s.windowCreationAge < GraceAge

\* this.clipboardWindow.show(); this.clipboardWindow.focus()
showAndFocus(s) ==
  IF s.clipboardWindow \in s.liveWindows
  THEN [ s EXCEPT !.visibleWindows = @ \cup {s.clipboardWindow},
                  !.focusedWindow = s.clipboardWindow ]
  ELSE s

WindowIds == 1..MaxWindows
\* The loads once a step has destroyed the windows that s has no more, seen
\* one loadFile() settle and created some: the loadFile() of a destroyed
\* window rejects later (settles) or never settles.
SetLoads(s, settled, created, settles) ==
  LET pending == loads \ settled
      stale == IF settles THEN Cardinality(pending \ s.liveWindows) ELSE 0
  IN /\ staleLoads + stale <= MaxStale
     /\ loads' = (pending \cap s.liveWindows) \cup created
     /\ staleLoads' = staleLoads + stale

\* globalShortcut.register(accelerator, callback): what the registry holds
DefaultShortcut == "Option+Command+V"
Registered(accelerator, debounces) ==
  [ accelerator |-> accelerator, debounces |-> debounces ]
\* what it holds when the application has nothing registered
NoShortcut == Registered("", FALSE)

\* as isRegistered, whatever is registered
isRegisteredAlways(accelerator) == TRUE

\* globalShortcut.isRegistered(accelerator)
isRegistered(accelerator) ==
  globalShortcut # NoShortcut /\ globalShortcut.accelerator = accelerator

\* -------------------------------------------------------------------- Init
\* After initialize() and init(): the store of a first start or of an earlier
\* run that set a limit, an empty history, the monitor started on whatever the
\* clipboard holds, no window.
InitStore ==
  /\ clipboardHistory = <<>>
  /\ storeHistory = <<>>
  /\ notificationsEnabled = TRUE
  /\ clock = 0

InitMonitor ==
  /\ isMonitoring = TRUE
  /\ lastClipboardContent = sysText
  /\ lastClipboardImage = sysImage
  /\ lastContainedFiles = FALSE

InitWindows ==
  /\ clipboardWindow = 0
  /\ closeTimers = {}
  /\ isWindowInitializing = FALSE
  /\ windowCreationAge = GraceAge
  /\ shortcutAge = DebounceAge
  /\ globalShortcut = Registered(DefaultShortcut, TRUE)
  /\ keyboardShortcut = DefaultShortcut
  /\ retryTimers = 0
  /\ timers = {}
  /\ loads = {}
  /\ staleLoads = 0
  /\ liveWindows = {}
  /\ visibleWindows = {}
  /\ focusedWindow = 0
  /\ handledWindows = {}
  /\ readyPending = {}

\* one display with a menu bar; the cursor rests where the window placed by
\* it lands on the corner the tray places it at
Laptop == <<Display(Rect(0, 0, 1000, 800), Rect(0, 25, 1000, 775))>>

InitSession ==
  /\ InitWindows
  /\ displays = Laptop
  /\ cursorPoint = Point(570, 295)
  /\ lastCursorPosition = NoCursor
  /\ windowFollowsCursor = TRUE
  /\ windowPosition = [x |-> 0, y |-> 0]

InitGhost ==
  /\ lastOp = Op("init", NoData, NoId, "")
  /\ triggerAge = DebounceAge
  /\ sent = <<>>

\* ----------------------------------------------------------------- actions
\* as addToHistory, keeping the list it had when store.set throws
addToHistoryRollsBack(clipboardData, setOk) ==
  /\ clipboardHistory' =
       IF setOk
       THEN addToHistoryList(clipboardHistory, clipboardData, clock', historyLimit)
       ELSE clipboardHistory
  /\ storeHistory' = IF setOk THEN clipboardHistory' ELSE storeHistory
  /\ sent' = IF setOk /\ clipboardWindow # 0
             THEN <<HistoryUpdated(clipboardHistory')>> ELSE <<>>
  /\ UNCHANGED <<storeLimit, notificationsEnabled>>

\* addToHistory(clipboardData), main.js 427-476; setOk: store.set returns
\* (it throws otherwise, past the send, into the caller).  Reads clock'.
addToHistory(clipboardData, setOk) ==
  /\ clipboardHistory' =
       addToHistoryList(clipboardHistory, clipboardData, clock', historyLimit)
  /\ storeHistory' = IF setOk THEN clipboardHistory' ELSE storeHistory
  /\ sent' = IF setOk /\ clipboardWindow # 0
             THEN <<HistoryUpdated(clipboardHistory')>> ELSE <<>>
  /\ UNCHANGED <<storeLimit, notificationsEnabled>>

\* this.monitor.on('change', ...) called with any data the monitor can emit;
\* changes are at least one poll period apart.
change(clipboardData, setOk) ==
  /\ clock' = clock + 1
  /\ addToHistory(clipboardData, setOk)
  /\ lastOp' = [ AppendOp("change", clipboardData, clipboardHistory, historyLimit)
                  EXCEPT !.failed = ~setOk ]
  /\ UNCHANGED <<sysVars, monitorVars, sessionVars>>


\* as catchTick, the interval cleared by a tick that throws
catchTickStops(thrown) == isMonitoring /\ ~thrown

\* the catches of checkClipboard, renderer.js 570-572 and 576-578: what
\* a tick throws ends there, the interval of start() goes on
catchTick(thrown) == isMonitoring

\* stop(), renderer.js 507-517
stop ==
  /\ isMonitoring
  /\ isMonitoring' = FALSE
  /\ sent' = <<>>
  /\ lastOp' = Op("stop", NoData, NoId, "")
  /\ UNCHANGED <<storeVars, clock, sysVars, lastClipboardContent, lastClipboardImage,
                 lastContainedFiles, sessionVars>>

\* as checkBranch, looking at the image before the text
checkBranchImageFirst(formats, text, lastText, img, lastImg) ==
  IF containsFiles(formats, text) THEN "files"
  ELSE IF ~isEmpty(img) /\ ~imagesEqual(img, lastImg) THEN "image"
  ELSE IF text # NoText /\ text # lastText THEN "text"
  ELSE "none"

\* as checkBranch, taking an emptied text for a change
checkBranchEmptyText(formats, text, lastText, img, lastImg) ==
  IF containsFiles(formats, text) THEN "files"
  ELSE IF text # lastText THEN "text"
  ELSE IF ~isEmpty(img) /\ ~imagesEqual(img, lastImg) THEN "image"
  ELSE "none"

\* the branch checkClipboard takes on what it read, renderer.js 525-574: each
\* of the first three returns
checkBranch(formats, text, lastText, img, lastImg) ==
  IF containsFiles(formats, text) THEN "files"
  ELSE IF text # NoText /\ text # lastText THEN "text"
  ELSE IF ~isEmpty(img) /\ ~imagesEqual(img, lastImg) THEN "image"
  ELSE "none"

\* one poll tick, a poll period after the last: checkClipboard(); readOk: the
\* clipboard reads return; setOk: the store.set of the listener returns (its
\* throw is caught here, after the last-seen value was updated)
checkClipboard(readOk, setOk) ==
  LET branch == checkBranch(sysFormats, sysText, lastClipboardContent,
                            sysImage, lastClipboardImage)
      thrown == \/ ~readOk
                \/ branch = "text" /\ ~setOk
                \/ branch = "image" /\ (ToPNGThrows(sysImage) \/ ~setOk)
  IN
  /\ isMonitoring
  /\ clock' = clock + 1
  /\ isMonitoring' = catchTick(thrown)
  /\ UNCHANGED <<sysVars, sessionVars>>
  /\ IF ~readOk
     THEN /\ UNCHANGED <<storeVars, lastClipboardContent, lastClipboardImage,
                         lastContainedFiles>>
          /\ sent' = <<>>
          /\ lastOp' = Op("checkClipboard", NoData, NoId, "error")
     ELSE IF branch = "files"
     THEN /\ lastContainedFiles' = TRUE
          /\ UNCHANGED <<storeVars, lastClipboardContent, lastClipboardImage>>
          /\ sent' = <<>>
          /\ lastOp' = Op("checkClipboard", NoData, NoId, "rejected")
     ELSE IF branch = "text"
     THEN /\ lastContainedFiles' = FALSE
          /\ lastClipboardContent' = sysText
          /\ UNCHANGED lastClipboardImage
          /\ addToHistory(TextData(sysText), setOk)
          /\ lastOp' = [ AppendOp("checkClipboard", TextData(sysText),
                                  clipboardHistory, historyLimit)
                         EXCEPT !.failed = ~setOk ]
     ELSE IF branch = "image"
     THEN /\ lastContainedFiles' = FALSE
          /\ lastClipboardImage' = sysImage
          /\ UNCHANGED lastClipboardContent
          /\ IF ToPNGThrows(sysImage)
             THEN /\ UNCHANGED storeVars
                  /\ sent' = <<>>
                  /\ lastOp' = Op("checkClipboard", NoData, NoId, "encoding-error")
             ELSE /\ addToHistory(ImageData(sysImage), setOk)
                  /\ lastOp' = [ AppendOp("checkClipboard", ImageData(sysImage),
                                          clipboardHistory, historyLimit)
                                 EXCEPT !.failed = ~setOk ]
     ELSE /\ lastContainedFiles' = FALSE
          /\ UNCHANGED <<storeVars, lastClipboardContent, lastClipboardImage>>
          /\ sent' = <<>>
          /\ lastOp' = Op("checkClipboard", NoData, NoId, "no-op")

\* another program (or the user) puts something on the clipboard
externalCopy(text, img, files) ==
  /\ sysText' = text
  /\ sysImage' = img
  /\ sysFormats' = BaseFormats(text, img) \cup (IF files THEN {FileMarker} ELSE {})
  /\ sysVars' # sysVars
  /\ sent' = <<>>
  /\ lastOp' = Op("externalCopy", NoData, NoId, "")
  /\ UNCHANGED <<storeVars, clock, monitorVars, sessionVars>>

Notify(type) ==
  IF notificationsEnabled /\ clipboardWindow # 0 THEN <<ShowNotification(type)>> ELSE <<>>

\* as setCloseTimeout, scheduling nothing
setCloseTimeoutNever(pending) == pending

\* setTimeout(() => this.destroyClipboardWindow(), 2800), main.js 589-591
setCloseTimeout(pending) == pending \cup {CloseDelay}

\* ipcMain.handle('select-clipboard-item'), main.js 487-594; writeOk: the
\* clipboard write returns
selectClipboardItem(itemId, setOk, writeOk) ==
  /\ UNCHANGED <<clock, monitorVars, storeLimit, notificationsEnabled, clipboardWindow,
                 windowVars, shortcutAge, triggerAge, shortcutVars, timers, loads,
                 staleLoads,
                 placeVars>>
  /\ IF Find(clipboardHistory, itemId) = 0
     THEN /\ UNCHANGED <<clipboardHistory, storeHistory, sysVars, closeTimers>>
          /\ sent' = <<>>
          /\ lastOp' = Op("select", NoData, itemId, "not-found")
     ELSE
     LET item == clipboardHistory[Find(clipboardHistory, itemId)]
         buffer == FromBase64(item.imageBufferBase64)
         image == createFromBuffer(buffer)
         out == IF ~setOk THEN "set-throws"
                ELSE IF item.type \in {"text", "richtext"}
                     THEN IF writeOk THEN "written" ELSE "write-throws"
                ELSE IF item.type # "image" THEN "scheduled"
                ELSE IF item.imageBufferBase64 = Undefined THEN "no-buffer"
                ELSE IF isEmpty(image) THEN "empty-image"
                ELSE IF writeOk THEN "written" ELSE "write-caught"
     IN
     /\ clipboardHistory' = moveToTop(clipboardHistory, itemId)
     /\ storeHistory' = IF setOk THEN clipboardHistory' ELSE storeHistory
     /\ IF out = "written" /\ item.type = "image"
        THEN /\ sysText' = NoText
             /\ sysImage' = image
             /\ sysFormats' = {"image/png"}
        ELSE IF out = "written"
        THEN /\ sysText' = item.text
             /\ sysImage' = EmptyImage
             /\ sysFormats' = {"text/plain"}
        ELSE UNCHANGED sysVars
     /\ sent' = IF out = "written" THEN Notify("success")
                ELSE IF out = "write-caught" THEN Notify("error")
                ELSE <<>>
     /\ closeTimers' = IF out \in {"written", "write-caught", "scheduled"}
                       THEN setCloseTimeout(closeTimers) ELSE closeTimers
     /\ lastOp' = [ Op("select", NoData, itemId, out) EXCEPT !.failed = ~setOk ]

\* ipcMain.handle('clear-clipboard-history'), main.js 600-612
clearClipboardHistory(setOk) ==
  /\ clipboardHistory' = <<>>
  /\ storeHistory' = IF setOk THEN <<>> ELSE storeHistory
  /\ sent' = IF setOk /\ clipboardWindow # 0 THEN <<HistoryUpdated(<<>>)>> ELSE <<>>
  /\ lastOp' = [ Op("clear", NoData, NoId, IF setOk THEN "" ELSE "set-throws")
                  EXCEPT !.failed = ~setOk ]
  /\ UNCHANGED <<storeLimit, notificationsEnabled, clock, sysVars, monitorVars,
                 sessionVars>>

\* as trayClearHistory, clearing the list in memory only
trayClearHistoryMemoryOnly(setOk) ==
  /\ clipboardHistory' = <<>>
  /\ sent' = <<>>
  /\ lastOp' = Op("trayClear", NoData, NoId, "")
  /\ UNCHANGED <<storeHistory, storeLimit, notificationsEnabled, clock, sysVars,
                 monitorVars, sessionVars>>

\* the tray menu's Clear History, main.js 199-206
trayClearHistory(setOk) ==
  /\ clipboardHistory' = <<>>
  /\ storeHistory' = IF setOk THEN <<>> ELSE storeHistory
  /\ sent' = <<>>
  /\ lastOp' = [ Op("trayClear", NoData, NoId, IF setOk THEN "" ELSE "set-throws")
                  EXCEPT !.failed = ~setOk ]
  /\ UNCHANGED <<storeLimit, notificationsEnabled, clock, sysVars, monitorVars,
                 sessionVars>>

\* ipcMain.handle('set-notifications-enabled'), main.js 659-663
setNotificationsEnabled(enabled) ==
  /\ notificationsEnabled' = enabled
  /\ sent' = <<>>
  /\ lastOp' = Op("setNotificationsEnabled", NoData, NoId, "")
  /\ UNCHANGED <<clipboardHistory, storeHistory, storeLimit, clock, sysVars, monitorVars,
                 sessionVars>>

\* as updateHistoryLimit, storing the limit and leaving the list as it is
updateHistoryLimitKeepsList(limit, failAt) ==
  /\ storeLimit' = IF failAt = 2 THEN storeLimit ELSE limit
  /\ sent' = <<>>
  /\ lastOp' = [ Op("updateLimit", NoData, NoId, IF failAt = 2 THEN "set-throws" ELSE "")
                 EXCEPT !.cut = Len(clipboardHistory) > limit, !.failed = failAt = 2 ]
  /\ UNCHANGED <<clipboardHistory, storeHistory, notificationsEnabled, clock, sysVars,
                 monitorVars, sessionVars>>

\* ipcMain.handle('update-history-limit'), main.js 614-632; failAt: the
\* store.set that throws, 0 for none, 1 for the history's, 2 for the limit's
updateHistoryLimit(limit, failAt) ==
  LET truncates == Len(clipboardHistory) > limit
      failed == IF truncates THEN failAt # 0 ELSE failAt = 2
  IN
  /\ clipboardHistory' = IF truncates THEN Slice(clipboardHistory, limit)
                         ELSE clipboardHistory
  /\ storeHistory' = IF truncates /\ failAt # 1 THEN clipboardHistory' ELSE storeHistory
  /\ sent' = IF truncates /\ failAt # 1 /\ clipboardWindow # 0
             THEN <<HistoryUpdated(clipboardHistory')>> ELSE <<>>
  /\ storeLimit' = IF failed THEN storeLimit ELSE limit
  /\ lastOp' = [ Op("updateLimit", NoData, NoId, IF failed THEN "set-throws" ELSE "")
                 EXCEPT !.cut = truncates, !.failed = failed ]
  /\ UNCHANGED <<notificationsEnabled, clock, sysVars, monitorVars, sessionVars>>

\* what the steps of a session that no claim singles out leave in lastOp
SessionOp == Op("session", NoData, NoId, "")

\* what every step of the session leaves alone
SessionFrame ==
  /\ sent' = <<>>
  /\ UNCHANGED <<storeVars, clock, sysVars, monitorVars, shortcutVars, displays,
                 cursorPoint, windowFollowsCursor>>

\* as catchShow, leaving isWindowInitializing as it is
catchShowKeepsFlag(s) ==
  IF s.clipboardWindow # 0
  THEN [ destroy(s, s.clipboardWindow) EXCEPT !.clipboardWindow = 0,
                                              !.isWindowInitializing = s.isWindowInitializing ]
  ELSE s

\* as catchShow, leaving the window there is
catchShowKeepsWindow(s) == [ s EXCEPT !.isWindowInitializing = FALSE ]

\* the catch of showClipboardWindow, main.js 339-347
catchShow(s) ==
  LET s1 == [ s EXCEPT !.isWindowInitializing = FALSE ]
  IN IF s1.clipboardWindow # 0
     THEN [ destroy(s1, s1.clipboardWindow) EXCEPT !.clipboardWindow = 0 ]
     ELSE s1

\* who calls showClipboardWindow: the tray forces the corner, the shortcut's
\* callbacks do not
Trigger(forceTopRight) == IF forceTopRight THEN "tray" ELSE "hotkey"

\* showClipboardWindow(forceTopRight), main.js 230-293, up to the await of
\* loadFile(): the await of getCursorPosition() lets no other handler in.
\* settles: the loadFile() of a window destroyed here rejects later.
showClipboardWindow(forceTopRight, settles) ==
  IF skipsCreation(Session)
  THEN /\ UNCHANGED <<clipboardWindow, windowVars, loads, staleLoads,
                      lastCursorPosition, windowPosition>>
       /\ lastOp' = [ Op("show", NoData, NoId, "skipped")
                       EXCEPT !.by = Trigger(forceTopRight) ]
  ELSE
  LET s1 == [ Session EXCEPT !.isWindowInitializing = TRUE ]
      cursor == IF forceTopRight THEN lastCursorPosition ELSE cursorPoint
      s2 == destroyClipboardWindow(s1)
      free == WindowIds \ s2.liveWindows
      w == CHOOSE i \in free : \A j \in free : i <= j
      s3 == [ s2 EXCEPT !.clipboardWindow = w,
                        !.liveWindows = @ \cup {w},
                        !.readyPending = @ \cup {w} ]
  IN /\ free # {}
     /\ lastCursorPosition' = cursor
     /\ windowPosition' =
          calculateWindowPosition(forceTopRight, cursor, windowFollowsCursor, displays)
     /\ SetSession(s3)
     /\ SetLoads(s2, {}, {w}, settles)
     /\ lastOp' = [ Op("show", NoData, NoId,
                        IF clipboardWindow # 0 THEN "replaced" ELSE "created")
                     EXCEPT !.by = Trigger(forceTopRight) ]

\* the callback registerGlobalShortcut gives the shortcut, main.js 124-141
hotkey(settles) ==
  /\ globalShortcut.debounces
  /\ SessionFrame
  /\ UNCHANGED <<closeTimers, timers>>
  /\ IF shortcutAge < DebounceAge
     THEN /\ UNCHANGED <<shortcutAge, triggerAge, clipboardWindow, windowVars, loads,
                         staleLoads, lastCursorPosition, windowPosition>>
          /\ lastOp' = [ Op("hotkey", NoData, NoId, "debounced") EXCEPT !.by = "hotkey" ]
     ELSE /\ shortcutAge' = 0
          /\ triggerAge' = 0
          /\ showClipboardWindow(FALSE, settles)

\* the callback set-keyboard-shortcut gives the shortcut, main.js 701-704 and
\* 712-715
changedHotkey(settles) ==
  /\ globalShortcut # NoShortcut
  /\ ~globalShortcut.debounces
  /\ SessionFrame
  /\ UNCHANGED <<closeTimers, timers, shortcutAge>>
  /\ triggerAge' = 0
  /\ showClipboardWindow(FALSE, settles)

\* as setKeyboardShortcut, storing the accelerator before it registers it
setKeyboardShortcutStoresFirst(shortcut, success) ==
  /\ globalShortcut' = IF success THEN Registered(shortcut, FALSE)
                       ELSE Registered(keyboardShortcut, FALSE)
  /\ keyboardShortcut' = shortcut
  /\ sent' = <<>>
  /\ lastOp' = Op("setKeyboardShortcut", NoData, NoId, IF success THEN "" ELSE "throws")
  /\ UNCHANGED <<storeVars, clock, sysVars, monitorVars, clipboardWindow, closeTimers,
                 windowVars, shortcutAge, triggerAge, retryTimers, timers, loads,
                 staleLoads, placeVars>>

\* ipcMain.handle('set-keyboard-shortcut'), main.js 692-722; success: the
\* new accelerator registers (the old one is registered again otherwise, and
\* the handler throws)
setKeyboardShortcut(shortcut, success) ==
  /\ globalShortcut' = IF success THEN Registered(shortcut, FALSE)
                       ELSE Registered(keyboardShortcut, FALSE)
  /\ keyboardShortcut' = IF success THEN shortcut ELSE keyboardShortcut
  /\ sent' = <<>>
  /\ lastOp' = Op("setKeyboardShortcut", NoData, NoId, IF success THEN "" ELSE "throws")
  /\ UNCHANGED <<storeVars, clock, sysVars, monitorVars, clipboardWindow, closeTimers,
                 windowVars, shortcutAge, triggerAge, retryTimers, timers, loads,
                 staleLoads, placeVars>>

\* registerGlobalShortcut(), main.js 118-158; success: what register()
\* returns; pending: the timeouts pending when it is called
registerGlobalShortcut(success, pending) ==
  /\ globalShortcut' = IF success THEN Registered(keyboardShortcut, TRUE) ELSE NoShortcut
  /\ retryTimers' = IF success THEN pending ELSE pending + 1
  /\ UNCHANGED keyboardShortcut

\* the periodic check of init(), main.js 62-68: registerGlobalShortcut() when
\* the default accelerator is not registered
shortcutCheck(success) ==
  /\ IF isRegistered(DefaultShortcut)
     THEN /\ UNCHANGED shortcutVars
          /\ lastOp' = Op("shortcutCheck", NoData, NoId, "")
     ELSE /\ success \/ retryTimers < MaxRetries
          /\ registerGlobalShortcut(success, retryTimers)
          /\ lastOp' = [ Op("shortcutCheck", NoData, NoId,
                             IF globalShortcut = NoShortcut THEN "restored"
                             ELSE "registered")
                          EXCEPT !.failed = ~success ]
  /\ sent' = <<>>
  /\ UNCHANGED <<storeVars, clock, sysVars, monitorVars, clipboardWindow, closeTimers,
                 windowVars, shortcutAge, triggerAge, timers, loads, staleLoads, placeVars>>

\* the timeout registerGlobalShortcut set fires, main.js 147-150
retryRegistration(success) ==
  /\ retryTimers > 0
  /\ registerGlobalShortcut(success, retryTimers - 1)
  /\ sent' = <<>>
  /\ lastOp' = [ Op("retryRegistration", NoData, NoId, "registered")
                  EXCEPT !.failed = ~success ]
  /\ UNCHANGED <<storeVars, clock, sysVars, monitorVars, clipboardWindow, closeTimers,
                 windowVars, shortcutAge, triggerAge, timers, loads, staleLoads, placeVars>>

\* something outside the application takes its shortcut away
externalUnregister ==
  /\ globalShortcut # NoShortcut
  /\ globalShortcut' = NoShortcut
  /\ sent' = <<>>
  /\ lastOp' = Op("externalUnregister", NoData, NoId, "")
  /\ UNCHANGED <<storeVars, clock, sysVars, monitorVars, clipboardWindow, closeTimers,
                 windowVars, shortcutAge, triggerAge, keyboardShortcut, retryTimers,
                 timers, loads, staleLoads, placeVars>>

\* the tray's click and its Open entry, main.js 194-197 and 220-222
trayClick(settles) ==
  /\ SessionFrame
  /\ UNCHANGED <<closeTimers, timers, shortcutAge, triggerAge>>
  /\ showClipboardWindow(TRUE, settles)

\* loadFile() of w resolves: showClipboardWindow goes on, main.js 295-335
loadResolves(w) ==
  /\ w \in loads \cap liveWindows
  /\ SessionFrame
  /\ UNCHANGED <<closeTimers, shortcutAge, triggerAge, staleLoads, lastCursorPosition,
                 windowPosition>>
  /\ loads' = loads \ {w}
  /\ timers' = timers \cup {[kind |-> "fallback", left |-> FallbackDelay]}
  /\ LET s1 == [ Session EXCEPT !.windowCreationAge = 0,
                                !.isWindowInitializing = FALSE ]
     IN IF s1.clipboardWindow \in s1.liveWindows
        THEN /\ SetSession([ s1 EXCEPT !.handledWindows = @ \cup {s1.clipboardWindow} ])
             /\ lastOp' = SessionOp
        ELSE /\ SetSession(catchShow(s1))
             /\ lastOp' = Op("catch", NoData, NoId, "caught")

\* loadFile() of w rejects: the catch, main.js 339-347
loadRejects(w, settles) ==
  /\ w \in loads
  /\ SessionFrame
  /\ UNCHANGED <<closeTimers, shortcutAge, triggerAge, timers, lastCursorPosition,
                 windowPosition>>
  /\ LET s1 == catchShow(Session)
     IN /\ SetSession(s1)
        /\ SetLoads(s1, {w}, {}, settles)
  /\ lastOp' = Op("catch", NoData, NoId, "caught")

\* loadFile() of a window that was destroyed rejects: the same catch
staleLoadRejects(settles) ==
  /\ staleLoads > 0
  /\ SessionFrame
  /\ UNCHANGED <<closeTimers, shortcutAge, triggerAge, timers, lastCursorPosition,
                 windowPosition>>
  /\ LET s1 == catchShow(Session)
         stale == IF settles THEN Cardinality(loads \ s1.liveWindows) ELSE 0
     IN /\ SetSession(s1)
        /\ loads' = loads \cap s1.liveWindows
        /\ staleLoads' = staleLoads - 1 + stale
  /\ lastOp' = Op("catch", NoData, NoId, "caught")

\* 'ready-to-show' of w, main.js 287-291
readyToShow(w) ==
  /\ w \in readyPending
  /\ SessionFrame
  /\ UNCHANGED <<closeTimers, shortcutAge, triggerAge, timers, loads, staleLoads,
                 lastCursorPosition, windowPosition>>
  /\ SetSession([ showAndFocus(Session) EXCEPT !.readyPending = @ \ {w} ])
  /\ lastOp' = SessionOp

\* the fallback show, main.js 302-308
fallbackShow ==
  /\ [kind |-> "fallback", left |-> 0] \in timers
  /\ timers' = timers \ {[kind |-> "fallback", left |-> 0]}
  /\ SessionFrame
  /\ UNCHANGED <<closeTimers, shortcutAge, triggerAge, loads, staleLoads, lastCursorPosition,
                 windowPosition>>
  /\ IF clipboardWindow # 0 /\ clipboardWindow \notin visibleWindows
     THEN SetSession(showAndFocus(Session))
     ELSE UNCHANGED <<clipboardWindow, windowVars>>
  /\ lastOp' = SessionOp

\* the focused window loses the focus: 'blur', main.js 311-330
blur ==
  /\ focusedWindow # 0
  /\ focusedWindow' = 0
  /\ SessionFrame
  /\ UNCHANGED <<clipboardWindow, isWindowInitializing, windowCreationAge, liveWindows,
                 visibleWindows, handledWindows, readyPending, closeTimers,
                 shortcutAge, triggerAge, loads, staleLoads, lastCursorPosition,
                 windowPosition>>
  /\ IF focusedWindow \notin handledWindows
     THEN /\ UNCHANGED timers
          /\ lastOp' = Op("blur", NoData, NoId, "no-handler")
     ELSE IF ignoresBlur(Session)
     THEN /\ UNCHANGED timers
          /\ lastOp' = Op("blur", NoData, NoId, "ignored")
     ELSE /\ timers' = timers \cup {[kind |-> "recheck", left |-> RecheckDelay]}
          /\ lastOp' = Op("blur", NoData, NoId, "recheck")

\* the user clicks a window that has not the focus
focus(w) ==
  /\ w \in visibleWindows
  /\ focusedWindow = 0
  /\ focusedWindow' = w
  /\ SessionFrame
  /\ UNCHANGED <<clipboardWindow, isWindowInitializing, windowCreationAge, liveWindows,
                 visibleWindows, handledWindows, readyPending, closeTimers,
                 shortcutAge, triggerAge, timers, loads, staleLoads, lastCursorPosition,
                 windowPosition>>
  /\ lastOp' = SessionOp

\* as recheckCloses, not looking at the focus
recheckClosesUnfocusedOrNot(s) ==
  s.clipboardWindow # 0 /\ s.clipboardWindow \in s.liveWindows

\* the condition of the re-check, main.js 323
recheckCloses(s) ==
  /\ s.clipboardWindow # 0
  /\ s.focusedWindow # s.clipboardWindow
  /\ s.clipboardWindow \in s.liveWindows

\* the re-check of a blur, main.js 322-329
blurRecheck(settles) ==
  /\ [kind |-> "recheck", left |-> 0] \in timers
  /\ timers' = timers \ {[kind |-> "recheck", left |-> 0]}
  /\ SessionFrame
  /\ UNCHANGED <<closeTimers, shortcutAge, triggerAge, lastCursorPosition, windowPosition>>
  /\ IF recheckCloses(Session)
     THEN LET s1 == destroyClipboardWindow(Session)
          IN /\ SetSession(s1)
             /\ SetLoads(s1, {}, {}, settles)
             /\ lastOp' = Op("blurRecheck", NoData, NoId, "closed")
     ELSE /\ UNCHANGED <<clipboardWindow, windowVars, loads, staleLoads>>
          /\ lastOp' = Op("blurRecheck", NoData, NoId, "kept")

\* the close timer of a selection, main.js 589-591
closeTimerFires(settles) ==
  /\ 0 \in closeTimers
  /\ closeTimers' = closeTimers \ {0}
  /\ SessionFrame
  /\ UNCHANGED <<shortcutAge, triggerAge, timers, lastCursorPosition, windowPosition>>
  /\ LET s1 == destroyClipboardWindow(Session)
     IN /\ SetSession(s1)
        /\ SetLoads(s1, {}, {}, settles)
  /\ lastOp' = SessionOp

\* ipcMain.handle('close-clipboard-window'), main.js 596-598, sent by the
\* renderer of a window
closeClipboardWindow(settles) ==
  /\ liveWindows # {}
  /\ SessionFrame
  /\ UNCHANGED <<closeTimers, shortcutAge, triggerAge, timers, lastCursorPosition,
                 windowPosition>>
  /\ LET s1 == destroyClipboardWindow(Session)
     IN /\ SetSession(s1)
        /\ SetLoads(s1, {}, {}, settles)
  /\ lastOp' = SessionOp

\* the user moves the mouse, on some display
moveCursor(point) ==
  /\ \E i \in 1..Len(displays) : Distance(displays[i].bounds, point) = 0
  /\ cursorPoint' = point
  /\ cursorPoint' # cursorPoint
  /\ sent' = <<>>
  /\ lastOp' = Op("moveCursor", NoData, NoId, "")
  /\ UNCHANGED <<storeVars, clock, sysVars, monitorVars, clipboardWindow, closeTimers,
                 windowVars, shortcutAge, triggerAge, shortcutVars, timers, loads,
                 staleLoads,
                 displays,
                 lastCursorPosition, windowFollowsCursor, windowPosition>>

\* this.lastCursorPosition = await getCursorPosition(), main.js 245
readCursor ==
  /\ lastCursorPosition' = cursorPoint
  /\ sent' = <<>>
  /\ lastOp' = Op("readCursor", NoData, NoId, "")
  /\ UNCHANGED <<storeVars, clock, sysVars, monitorVars, clipboardWindow, closeTimers,
                 windowVars, shortcutAge, triggerAge, shortcutVars, timers, loads,
                 staleLoads,
                 displays,
                 cursorPoint, windowFollowsCursor, windowPosition>>

\* ipcMain.handle('set-window-follows-cursor'), main.js 670-674
setWindowFollowsCursor(enabled) ==
  /\ windowFollowsCursor' = enabled
  /\ sent' = <<>>
  /\ lastOp' = Op("setWindowFollowsCursor", NoData, NoId, "")
  /\ UNCHANGED <<storeVars, clock, sysVars, monitorVars, clipboardWindow, closeTimers,
                 windowVars, shortcutAge, triggerAge, shortcutVars, timers, loads,
                 staleLoads,
                 displays,
                 cursorPoint, lastCursorPosition, windowPosition>>

\* const { x, y } = this.calculateWindowPosition(forceTopRight), main.js 260,
\* on its own; lastOp.out names the branch taken
placeWindow(forceTopRight) ==
  /\ windowPosition' = calculateWindowPosition(forceTopRight, lastCursorPosition,
                                               windowFollowsCursor, displays)
  /\ sent' = <<>>
  /\ lastOp' = Op("place", NoData, NoId,
                  IF ~windowFollowsCursor \/ forceTopRight THEN "corner"
                  ELSE IF lastCursorPosition.kind # "point" THEN "centered"
                  ELSE "cursor")
  /\ UNCHANGED <<storeVars, clock, sysVars, monitorVars, clipboardWindow, closeTimers,
                 windowVars, shortcutAge, triggerAge, shortcutVars, timers, loads,
                 staleLoads,
                 displays,
                 cursorPoint, lastCursorPosition, windowFollowsCursor>>

\* 100 ms pass: every timer that is due has fired
advance ==
  /\ \A t \in timers : t.left > 0
  /\ \A left \in closeTimers : left > 0
  /\ timers' = { [t EXCEPT !.left = @ - 1] : t \in timers }
  /\ closeTimers' = { left - 1 : left \in closeTimers }
  /\ windowCreationAge' = Min(windowCreationAge + 1, GraceAge)
  /\ shortcutAge' = Min(shortcutAge + 1, DebounceAge)
  /\ triggerAge' = Min(triggerAge + 1, DebounceAge)
  /\ SessionFrame
  /\ UNCHANGED <<clipboardWindow, isWindowInitializing, liveWindows, visibleWindows,
                 focusedWindow, handledWindows, readyPending, loads, staleLoads,
                 lastCursorPosition, windowPosition>>
  /\ lastOp' = SessionOp

\* the application is quit and started again: initialize(), main.js 22-37,
\* reads the history back from the store; start() of the monitor reads the
\* clipboard
initialize ==
  /\ clipboardHistory' = storeHistory
  /\ UNCHANGED <<storeHistory, storeLimit, notificationsEnabled, clock, sysVars>>
  /\ isMonitoring' = TRUE
  /\ lastClipboardContent' = sysText
  /\ lastClipboardImage' = sysImage
  /\ lastContainedFiles' = FALSE
  /\ SetSession([ clipboardWindow |-> 0, isWindowInitializing |-> FALSE,
                  windowCreationAge |-> GraceAge, liveWindows |-> {},
                  visibleWindows |-> {}, focusedWindow |-> 0, handledWindows |-> {},
                  readyPending |-> {} ])
  /\ closeTimers' = {} /\ timers' = {} /\ loads' = {} /\ staleLoads' = 0
  /\ shortcutAge' = DebounceAge
  /\ triggerAge' = DebounceAge
  /\ globalShortcut' = Registered(keyboardShortcut, TRUE)
  /\ keyboardShortcut' = keyboardShortcut
  /\ retryTimers' = 0
  /\ lastCursorPosition' = NoCursor
  /\ UNCHANGED <<displays, cursorPoint, windowFollowsCursor, windowPosition>>
  /\ sent' = <<>>
  /\ lastOp' = Op("initialize", NoData, NoId, "")

\* ---------------------------------------------------------- specifications
ItemIds == { NumberToString(n) : n \in 1..MaxClock }

\* The history store on its own: the 'change' listener is called with any
\* change, and the surface's requests arrive in any order.
ChangeData ==
  { TextData(t) : t \in {TextA, TextB, TextRich} } \cup { ImageData(Image1) }

InitHistory ==
  /\ InitStore /\ InitSession /\ InitGhost
  /\ storeLimit \in {Unset} \cup 1..MaxLimit
  /\ sysText = NoText /\ sysImage = EmptyImage /\ sysFormats = {}
  /\ InitMonitor

NextHistory ==
  \/ \E clipboardData \in ChangeData : clock < MaxClock /\ change(clipboardData, TRUE)
  \/ \E itemId \in ItemIds : selectClipboardItem(itemId, TRUE, TRUE)
  \/ clearClipboardHistory(TRUE)
  \/ trayClearHistory(TRUE)
  \/ \E limit \in 1..MaxLimit : updateHistoryLimit(limit, 0)

SpecHistory == InitHistory /\ [][NextHistory]_vars

\* The same, the application being quit and started again at any time.
NextRestart ==
  \/ NextHistory
  \/ initialize

SpecRestart == InitHistory /\ [][NextRestart]_vars

Contents(history) == [ i \in 1..Len(history) |-> ItemContent(history[i]) ]

\* C1: the history never holds more entries than the configured limit, in
\* every state reached by changes, selections, clears and limit updates.
C1_LengthWithinLimit == Len(clipboardHistory) <= historyLimit

\* a change has just cut the list, which is full
C1_Witness ==
  /\ lastOp.name = "change" /\ lastOp.cut
  /\ historyLimit >= 2 /\ Len(clipboardHistory) = historyLimit

\* C2: no two entries of the history are duplicates: the same kind with the
\* same text, or two images with the same encoded bytes.
Duplicates(a, b) ==
  /\ a.type = b.type
  /\ \/ a.type \in {"text", "richtext"} /\ a.text = b.text
     \/ a.type = "image" /\ a.imageBufferBase64 = b.imageBufferBase64

C2_NoDuplicates ==
  \A i, j \in 1..Len(clipboardHistory) :
     i # j => ~Duplicates(clipboardHistory[i], clipboardHistory[j])

\* an image came again while another entry was in front of it
C2_Witness ==
  /\ lastOp.name = "change" /\ lastOp.deduped /\ ~lastOp.repeat
  /\ lastOp.data.type = "image" /\ Len(clipboardHistory) >= 2

\* C3: a change whose content is the one the front entry already holds (the
\* content appended just before) leaves the contents of the history as they
\* were, with exactly one entry of that content, at the front.
C3_AppendIdempotent ==
  [][ (lastOp'.name = "change" /\ lastOp'.repeat) =>
        /\ Contents(clipboardHistory') = Contents(clipboardHistory)
        /\ ItemContent(clipboardHistory'[1]) = DataContent(lastOp'.data)
        /\ Cardinality({ i \in 1..Len(clipboardHistory') :
              ItemContent(clipboardHistory'[i]) = DataContent(lastOp'.data) }) = 1 ]_vars

\* the same content was appended twice in a row to a history holding others
C3_Witness ==
  /\ lastOp.name = "change" /\ lastOp.repeat /\ Len(clipboardHistory) >= 2

\* C4: a change puts the new snapshot at the front, followed by the entries
\* that are not duplicates of it in their order, cut to the first N.
C4_AppendResult ==
  [][ lastOp'.name = "change" =>
        LET data == lastOp'.data
            kept == SelectSeq(clipboardHistory,
                              LAMBDA item : ItemContent(item) # DataContent(data))
            n == Min(Len(kept) + 1, historyLimit)
        IN /\ Len(clipboardHistory') = n
           /\ ItemContent(clipboardHistory'[1]) = DataContent(data)
           /\ clipboardHistory'[1].id = NumberToString(clock')
           /\ \A i \in 2..n : clipboardHistory'[i] = kept[i - 1] ]_vars

\* with a limit of 2, the second of two entries came again and moved up
C4_Witness ==
  /\ lastOp.name = "change" /\ lastOp.deduped /\ ~lastOp.repeat /\ ~lastOp.cut
  /\ storeLimit = 2 /\ Len(clipboardHistory) = 2

\* C5: selecting an id of the history moves that entry to the front and
\* changes nothing else: the length, the entries and the order of the others.
C5_TouchMovesOnly ==
  [][ (lastOp'.name = "select" /\ lastOp'.out # "not-found") =>
        \E k \in 1..Len(clipboardHistory) :
           /\ clipboardHistory[k].id = lastOp'.id
           /\ Len(clipboardHistory') = Len(clipboardHistory)
           /\ clipboardHistory'[1] = clipboardHistory[k]
           /\ \A i \in 1..Len(clipboardHistory) :
                 /\ i < k => clipboardHistory'[i + 1] = clipboardHistory[i]
                 /\ i > k => clipboardHistory'[i] = clipboardHistory[i] ]_vars

\* an older entry was selected and is now in front of a newer one
C5_Witness ==
  /\ lastOp.name = "select" /\ lastOp.out = "written"
  /\ Len(clipboardHistory) >= 3
  /\ clipboardHistory[1].timestamp < clipboardHistory[2].timestamp

\* The session: the triggers, the loads, the events of the windows, the
\* requests of the surface and the timers, on a history an earlier run left.
PersistedHistory == <<newItem(TextData(TextA), 0)>>

InitSessions ==
  /\ clipboardHistory = PersistedHistory
  /\ storeHistory = PersistedHistory
  /\ storeLimit = Unset
  /\ notificationsEnabled = TRUE
  /\ clock = 0
  /\ sysText = TextA /\ sysImage = EmptyImage /\ sysFormats = BaseFormats(TextA, EmptyImage)
  /\ InitMonitor /\ InitSession /\ InitGhost

\* every step of a session but the selection and its close timer
NextSession ==
  \/ \E settles \in BOOLEAN : hotkey(settles)
  \/ \E settles \in BOOLEAN : trayClick(settles)
  \/ \E w \in WindowIds : loadResolves(w)
  \/ \E w \in WindowIds, settles \in BOOLEAN : loadRejects(w, settles)
  \/ \E settles \in BOOLEAN : staleLoadRejects(settles)
  \/ \E w \in WindowIds : readyToShow(w)
  \/ fallbackShow
  \/ blur
  \/ \E w \in WindowIds : focus(w)
  \/ \E settles \in BOOLEAN : blurRecheck(settles)
  \/ \E settles \in BOOLEAN : closeClipboardWindow(settles)
  \/ advance

SpecSession == InitSessions /\ [][NextSession]_vars

\* The same with the selection: the user picks the entry in a window that is
\* loaded and has the focus, no close timer of an earlier pick still pending.
NextSelect ==
  \/ NextSession
  \/ /\ focusedWindow \in visibleWindows \cap handledWindows
     /\ closeTimers = {}
     /\ selectClipboardItem(NumberToString(0), TRUE, TRUE)
  \/ \E settles \in BOOLEAN : closeTimerFires(settles)

SpecSelect == InitSessions /\ [][NextSelect]_vars

\* C9: at most one window is live in every state, the one the manager
\* refers to; a step that creates a window leaves it the only live one.
C9_OneLiveSurface ==
  /\ [](Cardinality(liveWindows) <= 1 /\ liveWindows \subseteq {clipboardWindow})
  /\ [][ (lastOp'.name = "show" /\ lastOp'.out # "skipped") =>
          liveWindows' = {clipboardWindow'} ]_vars

\* a trigger replaced a live window while a close timer was pending
C9_Witness ==
  /\ lastOp.name = "show" /\ lastOp.out = "replaced"
  /\ liveWindows = {clipboardWindow}
  /\ closeTimers # {} /\ timers # {}

Plain == <<Display(Rect(0, 0, 1000, 800), Rect(0, 0, 1000, 800))>>
Docked ==
  <<Display(Rect(0, 0, 1000, 800), Rect(60, 0, 940, 800)),
    Display(Rect(1000, 0, 800, 600), Rect(1000, 0, 800, 600))>>
DisplaySets == {Laptop, Plain, Docked}
CursorPoints ==
  { Point(x, y) : x \in {0, 500, 595, 999}, y \in {5, 300, 520, 799} }
    \cup {Point(1500, 300)}

InitPlace ==
  /\ InitStore /\ InitWindows /\ InitGhost
  /\ storeLimit = Unset
  /\ sysText = NoText /\ sysImage = EmptyImage /\ sysFormats = {}
  /\ InitMonitor
  /\ displays \in DisplaySets
  /\ cursorPoint = Point(500, 300)
  /\ lastCursorPosition = NoCursor
  /\ windowFollowsCursor = TRUE
  /\ windowPosition = [x |-> 0, y |-> 0]

NextPlace ==
  \/ \E point \in CursorPoints : moveCursor(point)
  \/ readCursor
  \/ \E enabled \in BOOLEAN : setWindowFollowsCursor(enabled)
  \/ \E forceTopRight \in BOOLEAN : placeWindow(forceTopRight)

SpecPlace == InitPlace /\ [][NextPlace]_vars

\* the 400 x 500 rectangle at pos lies within rect
Within(pos, rect) ==
  /\ rect.x <= pos.x /\ pos.x + WindowWidth <= rect.x + rect.width
  /\ rect.y <= pos.y /\ pos.y + WindowHeight <= rect.y + rect.height

\* C8: whatever the mode, the cursor and the displays, the rectangle of the
\* surface at the position calculateWindowPosition returns lies within the
\* work area of some display.
C8_WithinWorkArea ==
  lastOp.name = "place" =>
    \E i \in 1..Len(displays) : Within(windowPosition, displays[i].workArea)

\* The engine: the poller on a clipboard other programs write, feeding the
\* store.
Texts == {NoText, TextA, TextRich, TextPath}
Images == {EmptyImage, Image1, Image2, BadImage}

Init ==
  /\ InitStore /\ InitSession /\ InitGhost
  /\ storeLimit \in {Unset, 1}
  /\ sysText \in {NoText, TextA} /\ sysImage \in {EmptyImage, Image1}
  /\ sysFormats = BaseFormats(sysText, sysImage)
  /\ InitMonitor

Next ==
  \/ \E text \in Texts, img \in Images, files \in BOOLEAN : externalCopy(text, img, files)
  \/ \E readOk \in BOOLEAN : clock < MaxTicks /\ checkClipboard(readOk, TRUE)

Spec == Init /\ [][Next]_vars

\* what a tick reads, against what the monitor saw last
TextDiffers == sysText # NoText /\ sysText # lastClipboardContent
ImageDiffers == ~isEmpty(sysImage) /\ sysImage # lastClipboardImage
\* the read is one of files: a file format is offered or the text is a path
FileRead == sysFormats \cap fileFormats # {} \/ isFilePath(sysText)
Ticked == lastOp'.name = "checkClipboard" /\ lastOp'.out # "error"

\* C6 as stated: a tick emits 'change' if and only if the non-empty text or
\* image it read differs from the last-seen text or image.
C6_EmitsIffDiffers ==
  [][ Ticked => (lastOp'.out = "change" <=> (TextDiffers \/ ImageDiffers)) ]_vars

\* C6: a tick emits 'change' if and only if its read is not one of files and
\* the non-empty text differs from the last-seen text or, failing that, the
\* non-empty image differs from the last-seen image and encodes to PNG.
C6_EmitsIffDiffersAndAccepted ==
  [][ Ticked =>
        (lastOp'.out = "change" <=>
           /\ ~FileRead
           /\ TextDiffers \/ (ImageDiffers /\ ~ToPNGThrows(sysImage))) ]_vars

\* a tick emitted a new image beside a text the monitor had already seen
C6_Witness ==
  /\ lastOp.name = "checkClipboard" /\ lastOp.out = "change"
  /\ lastOp.data.type = "image"
  /\ sysText # NoText /\ sysText = lastClipboardContent

\* C7: a tick whose read is one of files emits nothing and changes neither
\* the history nor the last-seen text and image; no entry of the history
\* holds a file path.
C7_RejectedReadLeavesNoTrace ==
  /\ [](\A i \in 1..Len(clipboardHistory) : ~isFilePath(clipboardHistory[i].text))
  /\ [][ (Ticked /\ FileRead) =>
          /\ lastOp'.out = "rejected" /\ lastOp'.data = NoData /\ sent' = <<>>
          /\ clipboardHistory' = clipboardHistory
          /\ storeHistory' = storeHistory
          /\ lastClipboardContent' = lastClipboardContent
          /\ lastClipboardImage' = lastClipboardImage ]_vars

\* a tick rejected a read that offered a file format with a new text and a
\* new image, the history holding entries
C7_Witness ==
  /\ lastOp.name = "checkClipboard" /\ lastOp.out = "rejected"
  /\ FileMarker \in sysFormats /\ TextDiffers /\ ImageDiffers
  /\ ~isFilePath(sysText)
  /\ clipboardHistory # <<>>

\* The selection in a session: the user picks any entry of a history of two
\* in a window that is loaded and has the focus, while both triggers, the
\* loads, the focus changes, the close request and the timers go on.  Timers
\* that are due fire, and time passes.
PickHistory == <<newItem(ImageData(Image1), 1), newItem(TextData(TextA), 0)>>

InitPick ==
  /\ clipboardHistory = PickHistory
  /\ storeHistory = PickHistory
  /\ storeLimit = Unset
  /\ notificationsEnabled = TRUE
  /\ clock = 1
  /\ sysText = NoText /\ sysImage = Image1 /\ sysFormats = BaseFormats(NoText, Image1)
  /\ InitMonitor /\ InitSession /\ InitGhost

NextPick ==
  \/ hotkey(FALSE)
  \/ trayClick(FALSE)
  \/ \E w \in WindowIds : loadResolves(w)
  \/ \E w \in WindowIds : loadRejects(w, FALSE)
  \/ \E w \in WindowIds : readyToShow(w)
  \/ fallbackShow
  \/ blur
  \/ \E w \in WindowIds : focus(w)
  \/ blurRecheck(FALSE)
  \/ closeClipboardWindow(FALSE)
  \/ advance
  \/ /\ focusedWindow \in visibleWindows \cap handledWindows
     /\ closeTimers = {}
     /\ \E itemId \in {NumberToString(0), NumberToString(1)} :
           selectClipboardItem(itemId, TRUE, TRUE)
  \/ closeTimerFires(FALSE)

FairTimers ==
  /\ WF_vars(advance)
  /\ WF_vars(fallbackShow)
  /\ WF_vars(blurRecheck(FALSE))
  /\ WF_vars(closeTimerFires(FALSE))

SpecPick == InitPick /\ [][NextPick]_vars /\ FairTimers

Idle == clipboardWindow = 0 /\ ~isWindowInitializing

\* C11: a selection of an id of the history, made in an active session, puts
\* that entry at the front, writes its text or its decoded image to the
\* system clipboard and schedules the close 2.8 s later; when that timer
\* fires the session is idle, and after every such selection the session is
\* eventually idle.
C11_SelectedThenIdle ==
  /\ [][ (lastOp'.name = "select" /\ lastOp'.out # "not-found") =>
          \E k \in 1..Len(clipboardHistory) :
             LET item == clipboardHistory[k] IN
             /\ item.id = lastOp'.id
             /\ clipboardHistory'[1] = item
             /\ Len(clipboardHistory') = Len(clipboardHistory)
             /\ IF item.type = "image"
                THEN /\ sysText' = NoText
                     /\ Base64(toPNG(sysImage')) = item.imageBufferBase64
                ELSE sysText' = item.text /\ isEmpty(sysImage')
             /\ CloseDelay \in closeTimers' ]_vars
  /\ [][ (0 \in closeTimers /\ 0 \notin closeTimers') => Idle' ]_vars
  /\ (lastOp.name = "select" /\ lastOp.out = "written") ~> Idle

\* the older entry, a text, was picked in a shown window: it is in front and
\* on the clipboard, and the close is scheduled
C11_Witness ==
  /\ lastOp.name = "select" /\ lastOp.out = "written"
  /\ clipboardHistory[1].id = NumberToString(0)
  /\ clipboardHistory[2].id = NumberToString(1)
  /\ sysText = TextA /\ isEmpty(sysImage)
  /\ clipboardWindow \in visibleWindows \cap handledWindows
  /\ closeTimers = {CloseDelay}

\* The engine when store.set and the clipboard writes may throw: the poller
\* on a clipboard other programs write, a window that opens and closes, and
\* the requests of its surface.
InitFaults ==
  /\ InitStore /\ InitSession /\ InitGhost
  /\ storeLimit = Unset
  /\ sysText = NoText /\ sysImage = EmptyImage /\ sysFormats = {}
  /\ InitMonitor

NextFaults ==
  \/ \E text \in {NoText, TextA}, img \in {EmptyImage, Image1} :
        externalCopy(text, img, FALSE)
  \/ \E setOk \in BOOLEAN : clock < MaxTicks /\ checkClipboard(TRUE, setOk)
  \/ hotkey(FALSE)
  \/ \E w \in WindowIds : loadResolves(w)
  \/ closeClipboardWindow(FALSE)
  \/ \E itemId \in ItemIds, setOk, writeOk \in BOOLEAN :
        /\ clipboardWindow \in handledWindows
        /\ selectClipboardItem(itemId, setOk, writeOk)
  \/ \E setOk \in BOOLEAN : clipboardWindow \in handledWindows /\ clearClipboardHistory(setOk)
  \/ \E setOk \in BOOLEAN : trayClearHistory(setOk)
  \/ \E enabled \in BOOLEAN : setNotificationsEnabled(enabled)

SpecFaults == InitFaults /\ [][NextFaults]_vars

\* the outcomes of a selection whose write to the clipboard failed: the write
\* threw out of the handler, threw into its catch, or was given up because
\* the stored bytes decode to an empty image or are missing
WriteFailed == {"write-throws", "write-caught", "empty-image", "no-buffer"}

\* C12 as stated: whenever the write of a selected entry fails, the failure
\* is caught in the handler, which throws nothing, and an error notification
\* is sent if notifications are enabled and a window is open.
C12_WriteFailureReported ==
  [][ (lastOp'.name = "select" /\ lastOp'.out \in WriteFailed) =>
        /\ lastOp'.out # "write-throws"
        /\ (notificationsEnabled /\ clipboardWindow # 0) =>
              sent' = <<ShowNotification("error")>> ]_vars

\* the entries of a list, as a set
Entries(history) == { history[i] : i \in 1..Len(history) }

\* C13: an append, a selection or a clear whose store.set throws leaves in
\* memory the list it computed and in the store the list it held; the poller
\* goes on, and the tick and the selection that follow are processed as ever.
C13_FailedSetKeepsMutation ==
  /\ [][ (lastOp'.failed /\ lastOp'.name = "checkClipboard") =>
          /\ Len(clipboardHistory') >= 1
          /\ ItemContent(clipboardHistory'[1]) = DataContent(lastOp'.data)
          /\ clipboardHistory'[1].id = NumberToString(clock')
          /\ Tail(clipboardHistory') =
               SelectSeq(clipboardHistory,
                         LAMBDA item : ItemContent(item) # DataContent(lastOp'.data))
          /\ storeHistory' = storeHistory ]_vars
  /\ [][ (lastOp'.failed /\ lastOp'.name = "select") =>
          /\ clipboardHistory'[1].id = lastOp'.id
          /\ Entries(clipboardHistory') = Entries(clipboardHistory)
          /\ Len(clipboardHistory') = Len(clipboardHistory)
          /\ storeHistory' = storeHistory ]_vars
  /\ [][ (lastOp'.failed /\ lastOp'.name \in {"clear", "trayClear"}) =>
          clipboardHistory' = <<>> /\ storeHistory' = storeHistory ]_vars
  /\ []isMonitoring
  /\ [][ (lastOp.failed /\ lastOp'.name = "checkClipboard") =>
          (lastOp'.out = "change" <=>
             /\ ~FileRead
             /\ TextDiffers \/ (ImageDiffers /\ ~ToPNGThrows(sysImage))) ]_vars
  /\ [][ (lastOp.failed /\ lastOp'.name = "select" /\ ~lastOp'.failed
            /\ lastOp'.out # "not-found") =>
          clipboardHistory'[1].id = lastOp'.id /\ storeHistory' = clipboardHistory' ]_vars

\* the append of a tick failed to persist: the new entry is in memory, in
\* front of an older one, and the store still holds the list without it
C13_Witness ==
  /\ lastOp.name = "checkClipboard" /\ lastOp.failed
  /\ Len(clipboardHistory) = 2
  /\ storeHistory = Tail(clipboardHistory)
  /\ isMonitoring

\* C14: store.set returning, the list the store holds is the list in memory
\* after every append, selection, truncation and clear, so that a start of
\* the application resumes with the same entries in the same order.
C14_StoreEqualsHistory ==
  /\ [](storeHistory = clipboardHistory)
  /\ [][ lastOp'.name = "initialize" => clipboardHistory' = clipboardHistory ]_vars

\* the application was started again on a history of two entries that a
\* selection had reordered
C14_Witness ==
  /\ lastOp.name = "initialize"
  /\ Len(clipboardHistory) = 2
  /\ clipboardHistory[1].timestamp < clipboardHistory[2].timestamp
  /\ storeHistory = clipboardHistory

AtMostOneEvent ==
  [][ lastOp'.name = "checkClipboard" =>
        /\ Len(sent') <= 1
        /\ Len(clipboardHistory') <= Len(clipboardHistory) + 1
        /\ \A i \in 2..Len(clipboardHistory') :
              clipboardHistory'[i] \in Entries(clipboardHistory) ]_vars

\* C16 as stated: on a tick that reads a non-empty text and a non-empty
\* image that both differ from the last seen, one 'change' is emitted, that
\* of the text, and the last-seen image is not updated; no tick emits more
\* than one.
C16_TextEventOnly ==
  /\ [][ (Ticked /\ TextDiffers /\ ImageDiffers) =>
          /\ lastOp'.out = "change" /\ lastOp'.data = TextData(sysText)
          /\ lastClipboardImage' = lastClipboardImage ]_vars
  /\ AtMostOneEvent

\* C16: on a tick whose read is not one of files and holds a non-empty text
\* and a non-empty image that both differ from the last seen, one 'change'
\* is emitted, that of the text: the text becomes the last seen, the
\* last-seen image is not updated and one entry, of the text, is appended;
\* no tick emits more than one.
C16_TextEventOnlyWhenAccepted ==
  /\ [][ (Ticked /\ ~FileRead /\ TextDiffers /\ ImageDiffers) =>
          /\ lastOp'.out = "change" /\ lastOp'.data = TextData(sysText)
          /\ lastClipboardContent' = sysText
          /\ lastClipboardImage' = lastClipboardImage
          /\ clipboardHistory'[1].text = sysText
          /\ clipboardHistory'[1].type \in {"text", "richtext"} ]_vars
  /\ AtMostOneEvent

\* a tick emitted the text it read beside an image that still differs from
\* the last seen
C16_Witness ==
  /\ lastOp.name = "checkClipboard" /\ lastOp.out = "change"
  /\ lastOp.data = TextData(sysText)
  /\ ImageDiffers /\ ~FileRead
  /\ sysImage = Image1

\* C17: a tick that reads an empty text and an empty image emits nothing and
\* leaves the history, the store, the last-seen text and the last-seen image
\* as they were.
C17_EmptyReadIsNoOp ==
  [][ (Ticked /\ sysText = NoText /\ isEmpty(sysImage)) =>
        /\ lastOp'.out \in {"no-op", "rejected"} /\ lastOp'.data = NoData
        /\ sent' = <<>>
        /\ UNCHANGED <<clipboardHistory, storeHistory, lastClipboardContent,
                       lastClipboardImage>> ]_vars

\* the clipboard was emptied after a text and an image had been captured:
\* the tick did nothing and both are still the last seen
C17_Witness ==
  /\ lastOp.name = "checkClipboard" /\ lastOp.out = "no-op"
  /\ sysText = NoText /\ isEmpty(sysImage)
  /\ lastClipboardContent # NoText /\ ~isEmpty(lastClipboardImage)
  /\ Len(clipboardHistory) >= 1

\* The session when the shortcut is changed in the settings and looked after
\* by the periodic check.
CustomShortcut == "Control+Shift+V"

NextShortcut ==
  \/ NextSession
  \/ \E settles \in BOOLEAN : changedHotkey(settles)
  \/ \E shortcut \in {DefaultShortcut, CustomShortcut}, success \in BOOLEAN :
        clipboardWindow \in handledWindows /\ setKeyboardShortcut(shortcut, success)
  \/ shortcutCheck(TRUE)

SpecShortcut == InitSessions /\ [][NextShortcut]_vars

\* C18 as stated: a callback of the shortcut that runs less than 300 ms after
\* a callback of the shortcut last went on to showClipboardWindow never
\* creates or replaces a window, whichever callback is registered.
C18_DebouncedAtSource ==
  [][ (lastOp'.by = "hotkey" /\ triggerAge < DebounceAge) =>
        lastOp'.out \notin {"created", "replaced"} ]_vars

\* The session when the loadFile() of a window that exists settles, the
\* timers that are due fire and time passes.
FairSession ==
  /\ WF_vars(\E w \in WindowIds :
                loadResolves(w) \/ \E settles \in BOOLEAN : loadRejects(w, settles))
  /\ WF_vars(advance)
  /\ WF_vars(fallbackShow)
  /\ WF_vars(\E settles \in BOOLEAN : blurRecheck(settles))

SpecSessionFair == InitSessions /\ [][NextSession]_vars /\ FairSession

\* the window the manager refers to is loaded and not shown
LoadedHidden ==
  /\ clipboardWindow \in handledWindows
  /\ clipboardWindow \notin visibleWindows

\* C19: a session that is initializing eventually is not: its load resolves
\* and it is active, or it is given up and the session is idle; while a
\* trigger is skipped the window is loading; a loaded window that is not
\* shown has the fallback timer pending and is eventually shown or gone.
C19_LeavesInitializing ==
  /\ isWindowInitializing ~> ~isWindowInitializing
  /\ [](isWindowInitializing => clipboardWindow \in loads \cap liveWindows)
  /\ [](LoadedHidden => \E t \in timers : t.kind = "fallback")
  /\ LoadedHidden ~> ~LoadedHidden

\* the load of the first window resolved before its 'ready-to-show': the
\* session is active, the window still hidden, the fallback pending
C19_Witness ==
  /\ ~isWindowInitializing /\ LoadedHidden
  /\ clipboardWindow \in readyPending
  /\ [kind |-> "fallback", left |-> FallbackDelay] \in timers

\* C20: a 'blur' of a window whose load has not resolved, or resolved less
\* than 500 ms before, closes nothing and starts no timer: the window, its
\* state and every pending timer are as they were, but for the focus.
C20_BlurInGraceIgnored ==
  [][ (lastOp'.name = "blur"
         /\ (clipboardWindow \notin handledWindows \/ windowCreationAge < GraceAge)) =>
        /\ lastOp'.out \in {"ignored", "no-handler"}
        /\ timers' = timers /\ closeTimers' = closeTimers
        /\ clipboardWindow' = clipboardWindow /\ liveWindows' = liveWindows
        /\ visibleWindows' = visibleWindows /\ handledWindows' = handledWindows ]_vars

\* the shown window lost the focus 400 ms after its load resolved: it is
\* still there and no re-check is pending
C20_Witness ==
  /\ lastOp.name = "blur" /\ lastOp.out = "ignored"
  /\ windowCreationAge = GraceAge - 1
  /\ clipboardWindow \in visibleWindows \cap handledWindows
  /\ focusedWindow = 0
  /\ timers = {}

\* ---------------------------------------------------------------- re-check
RecheckDue == [kind |-> "recheck", left |-> 0]

\* C21: a blur outside the grace closes nothing by itself and sets a re-check
\* 200 ms ahead, which only the passing of time brings nearer; the re-check
\* runs when its 200 ms are over and destroys the window exactly when the
\* manager has one that is alive and has not the focus, and leaves the
\* session as it is, window focused and referred to, when the focus is back.
C21_RecheckDecides ==
  /\ [][ (lastOp'.name = "blur" /\ lastOp'.out = "recheck") =>
          /\ UNCHANGED <<clipboardWindow, isWindowInitializing, liveWindows,
                         visibleWindows>>
          /\ [kind |-> "recheck", left |-> RecheckDelay] \in timers' ]_vars
  /\ [][ \A t \in timers' : t.kind = "recheck" =>
          \/ t \in timers
          \/ t.left = RecheckDelay /\ lastOp'.name = "blur" /\ lastOp'.out = "recheck"
          \/ /\ [t EXCEPT !.left = @ + 1] \in timers
             /\ windowCreationAge' = Min(windowCreationAge + 1, GraceAge) ]_vars
  /\ [][ lastOp'.name = "blurRecheck" =>
          /\ RecheckDue \in timers
          /\ IF /\ clipboardWindow \in liveWindows
                /\ focusedWindow # clipboardWindow
             THEN /\ lastOp'.out = "closed"
                  /\ clipboardWindow' = 0 /\ liveWindows' = {}
                  /\ ~isWindowInitializing'
             ELSE /\ lastOp'.out = "kept"
                  /\ UNCHANGED <<clipboardWindow, windowVars>> ]_vars

\* the re-check found the window it was set for unfocused and closed it
C21_Witness ==
  /\ lastOp.name = "blurRecheck" /\ lastOp.out = "closed"
  /\ clipboardWindow = 0 /\ liveWindows = {}
  /\ timers = {}

\* -------------------------------------------------------------------- limit
\* The store with a limit the settings change, store.set throwing at times.
NextLimit ==
  \/ \E clipboardData \in ChangeData : clock < MaxClock /\ change(clipboardData, TRUE)
  \/ \E limit \in 1..MaxLimit, failAt \in 0..2 : updateHistoryLimit(limit, failAt)

SpecLimit == InitHistory /\ [][NextLimit]_vars

\* C22 as stated: update-history-limit(n), whether it returns or throws,
\* either leaves the history cut to its first n entries with the stored limit
\* n, or leaves the history and the stored limit as they were.
C22_LimitAllOrNothing ==
  [][ lastOp'.name = "updateLimit" =>
        \/ \E n \in 1..MaxLimit :
              /\ clipboardHistory' = Slice(clipboardHistory, n)
              /\ storeLimit' = n
        \/ UNCHANGED <<clipboardHistory, storeLimit>> ]_vars

\* ------------------------------------------------------------- registration
\* The shortcut: pressed, changed in the settings of a loaded window, taken
\* away from outside, checked periodically and registered again, register()
\* failing at times.
NextRegister ==
  \/ hotkey(FALSE)
  \/ changedHotkey(FALSE)
  \/ \E w \in WindowIds : loadResolves(w)
  \/ closeClipboardWindow(FALSE)
  \/ \E shortcut \in {DefaultShortcut, CustomShortcut}, success \in BOOLEAN :
        clipboardWindow \in handledWindows /\ setKeyboardShortcut(shortcut, success)
  \/ \E success \in BOOLEAN : shortcutCheck(success)
  \/ \E success \in BOOLEAN : retryRegistration(success)
  \/ externalUnregister

SpecRegister == InitSessions /\ [][NextRegister]_vars

\* C23 as stated: the registration a retry timer makes is the only retry: when
\* it fails too it sets no further timer, so that one timer less is pending
\* and the shortcut stays unregistered.
C23_RetriedOnce ==
  [][ (lastOp'.name = "retryRegistration" /\ lastOp'.failed) =>
        /\ retryTimers' = retryTimers - 1
        /\ globalShortcut' = NoShortcut ]_vars

\* the interval of init() goes on firing, and register() succeeds when the
\* check calls it
FairCheck == WF_vars(shortcutCheck(TRUE))

SpecRegisterFair == SpecRegister /\ FairCheck

\* C24: whenever nothing is registered, the shortcut the store holds gets
\* registered; a periodic check that finds nothing registered and whose
\* register() succeeds registers the stored shortcut, whichever it is, with
\* the callback of registerGlobalShortcut.
C24_CheckRestores ==
  /\ (globalShortcut = NoShortcut) ~> isRegistered(keyboardShortcut)
  /\ [][ (lastOp'.name = "shortcutCheck" /\ globalShortcut = NoShortcut
           /\ ~lastOp'.failed) =>
          /\ lastOp'.out = "restored"
          /\ globalShortcut' = Registered(keyboardShortcut, TRUE)
          /\ UNCHANGED keyboardShortcut ]_vars

\* the check has registered again a shortcut that is not the default one
C24_Witness ==
  /\ lastOp.name = "shortcutCheck" /\ lastOp.out = "restored" /\ ~lastOp.failed
  /\ keyboardShortcut = CustomShortcut
  /\ globalShortcut = Registered(CustomShortcut, TRUE)

\* C25: update-history-limit(n) stores n as the limit, which nothing else
\* changes and which every later append cuts the list to; a history longer
\* than n becomes its first n entries, in their order, in memory and in the
\* store, and a history of at most n entries stays as it is, the store's too.
C25_LimitApplied ==
  /\ [][ lastOp'.name = "updateLimit" =>
          /\ storeLimit' \in 1..MaxLimit
          /\ IF Len(clipboardHistory) > storeLimit'
             THEN /\ lastOp'.cut
                  /\ clipboardHistory' = SubSeq(clipboardHistory, 1, storeLimit')
                  /\ storeHistory' = clipboardHistory'
             ELSE /\ ~lastOp'.cut
                  /\ UNCHANGED <<clipboardHistory, storeHistory>> ]_vars
  /\ [][ storeLimit' # storeLimit => lastOp'.name = "updateLimit" ]_vars
  /\ [][ (lastOp'.name = "change" /\ storeLimit # Unset) =>
          /\ Len(clipboardHistory') <= storeLimit
          /\ lastOp'.cut => Len(clipboardHistory') = storeLimit ]_vars

\* the limit was lowered to 1 under a history of several entries
C25_Witness ==
  /\ lastOp.name = "updateLimit" /\ lastOp.cut
  /\ storeLimit = 1 /\ Len(clipboardHistory) = 1
  /\ storeHistory = clipboardHistory

\* ----------------------------------------------------------------- failures
\* showClipboardWindow(true) of the tray when new BrowserWindow() throws, main.js
\* 230-284 and the catch: the window there was is destroyed before
createFails(settles) ==
  /\ ~skipsCreation(Session)
  /\ SessionFrame
  /\ UNCHANGED <<closeTimers, timers, shortcutAge, triggerAge, lastCursorPosition,
                 windowPosition>>
  /\ LET s1 == [ Session EXCEPT !.isWindowInitializing = TRUE ]
         s2 == destroyClipboardWindow(s1)
         s3 == catchShow([ s2 EXCEPT !.isWindowInitializing = TRUE ])
     IN /\ SetSession(s3)
        /\ SetLoads(s3, {}, {}, settles)
  /\ lastOp' = [ Op("catch", NoData, NoId, "caught") EXCEPT !.by = "tray" ]

\* The session with windows that fail to be created.
NextCreate ==
  \/ NextSession
  \/ \E settles \in BOOLEAN : createFails(settles)

SpecCreate == InitSessions /\ [][NextCreate]_vars

\* C26: once the catch of showClipboardWindow has run, for a window that
\* could not be created or a load that failed, the manager refers to no
\* window, no window is alive, isWindowInitializing is clear so that
\* showClipboardWindow does not skip; the step throws nothing, and the
\* call of showClipboardWindow that comes next creates a window.
C26_FailureAbortsToIdle ==
  /\ [](lastOp.name = "catch" =>
          /\ clipboardWindow = 0 /\ liveWindows = {} /\ visibleWindows = {}
          /\ ~isWindowInitializing /\ ~skipsCreation(Session)
          /\ ~lastOp.failed)
  /\ [][ (lastOp.name = "catch" /\ lastOp'.name = "show") =>
          /\ lastOp'.out = "created"
          /\ clipboardWindow' # 0 /\ liveWindows' = {clipboardWindow'} ]_vars

\* the load of the window failed while it was the manager's and loading
C26_Witness ==
  /\ lastOp.name = "catch" /\ lastOp.by = ""
  /\ clipboardWindow = 0 /\ liveWindows = {} /\ loads = {}
  /\ staleLoads = 0 /\ timers = {}

\* ------------------------------------------------------------------ polling
\* The poller with everything a tick can throw, until stop() is called.
NextMonitor ==
  \/ \E text \in {NoText, TextA}, img \in {EmptyImage, Image1, BadImage} :
        externalCopy(text, img, FALSE)
  \/ \E readOk, setOk \in BOOLEAN : clock < MaxTicks /\ checkClipboard(readOk, setOk)
  \/ stop

SpecMonitor == Init /\ [][NextMonitor]_vars

\* the interval of start() fires for as long as stop() has not cleared it
FairTicks ==
  WF_vars(\E readOk, setOk \in BOOLEAN : clock < MaxTicks /\ checkClipboard(readOk, setOk))

SpecMonitorFair == SpecMonitor /\ FairTicks

\* C27: a tick runs only while the monitor is started and leaves it started
\* whatever it throws; only stop() ends the monitoring; after every tick of
\* a started monitor the next one comes, unless stop() was called (for as
\* many ticks as the model runs through).
C27_TicksGoOn ==
  /\ [][ lastOp'.name = "checkClipboard" => (isMonitoring /\ isMonitoring') ]_vars
  /\ [][ (isMonitoring /\ ~isMonitoring') => lastOp'.name = "stop" ]_vars
  /\ [][ ~isMonitoring => clock' = clock ]_vars
  /\ \A c \in 0..(MaxTicks - 1) :
        (isMonitoring /\ clock = c) ~> (clock = c + 1 \/ ~isMonitoring)

\* a tick whose read failed has run after a tick whose listener threw
C27_Witness ==
  /\ lastOp.name = "checkClipboard" /\ lastOp.out = "error"
  /\ storeHistory # clipboardHistory
  /\ isMonitoring /\ clock = MaxTicks

\* ---------------------------------------------------------------- placement
\* the display calculateWindowPosition has chosen for the cursor it was given
ChosenBounds == getDisplayNearestPoint(displays, lastCursorPosition).bounds

PlacedByCursor == lastOp.name = "place" /\ lastOp.out = "cursor"

\* C28: placed by a cursor whose x + 10 + 400 is beyond the right edge of
\* the display chosen, the window is at cursor.x - 410 brought into the
\* display: its left edge is not left of the display's, its right edge not
\* right of the display's; on a display 1000 wide it is at cursor.x - 410
\* exactly, all of it left of the cursor.
C28_FlipsLeft ==
  (PlacedByCursor /\
   lastCursorPosition.x + 10 + WindowWidth > ChosenBounds.x + ChosenBounds.width) =>
     /\ windowPosition.x =
          Max(ChosenBounds.x,
              Min(lastCursorPosition.x - 410,
                  ChosenBounds.x + ChosenBounds.width - WindowWidth))
     /\ ChosenBounds.x <= windowPosition.x
     /\ windowPosition.x + WindowWidth <= ChosenBounds.x + ChosenBounds.width
     /\ ChosenBounds.width = 1000 =>
          /\ windowPosition.x = lastCursorPosition.x - 410
          /\ windowPosition.x + WindowWidth < lastCursorPosition.x

\* the window was placed for a cursor one pixel off the right edge
C28_Witness ==
  /\ PlacedByCursor
  /\ lastCursorPosition.x = 999 /\ ChosenBounds.width = 1000
  /\ windowPosition.x = 589

\* C29 as stated: placed by a cursor for which the window of 400 x 500 put
\* with its left edge 10 right of the cursor and its bottom edge at the
\* cursor's y lies within the display chosen, and for which the code flips
\* and clamps nothing either, the window is at (cursor.x + 10, cursor.y - 500).
C29_DefaultCandidate ==
  (/\ PlacedByCursor
   /\ lastCursorPosition.x + 10 + WindowWidth <= ChosenBounds.x + ChosenBounds.width
   /\ lastCursorPosition.y - WindowHeight >= ChosenBounds.y
   /\ lastCursorPosition.y - 250 + WindowHeight <= ChosenBounds.y + ChosenBounds.height) =>
     /\ windowPosition.x = lastCursorPosition.x + 10
     /\ windowPosition.y = lastCursorPosition.y - WindowHeight

PrimaryWorkArea == getPrimaryDisplay(displays).workArea

Fill(n) == [ i \in 1..n |-> "a" ]
PreviewTexts ==
  { pre \o Fill(n) \o post :
      pre \in { <<>>, <<" ", "\t">> },
      n \in { 1, PreviewCut - 1, PreviewMax, PreviewMax + 1 },
      post \in { <<>>, <<"\n">>, <<" ", "\n", "b", "\t", "\t", "c", "e", "f">> } }

InitPreview ==
  /\ InitStore /\ InitSession /\ InitGhost
  /\ storeLimit = 1
  /\ sysText = NoText /\ sysImage = EmptyImage /\ sysFormats = {}
  /\ InitMonitor

\* the poller on texts of every such shape
NextPreview ==
  \/ \E text \in PreviewTexts : externalCopy(text, EmptyImage, FALSE)
  \/ clock < MaxTicks /\ checkClipboard(TRUE, TRUE)

SpecPreview == InitPreview /\ [][NextPreview]_vars

\* the characters of s that are not whitespace, and where they stand
Ink(s) == SelectSeq(s, LAMBDA ch : ch \notin WhiteSpace)
InkAt(s) == SelectSeq([ i \in 1..Len(s) |-> i ], LAMBDA i : s[i] \notin WhiteSpace)
\* whether whitespace stands before the (k+1)-th of them, for each k-th
Gaps(s) ==
  LET at == InkAt(s)
  IN [ k \in 1..(Len(at) - 1) |-> s[at[k + 1] - 1] \in WhiteSpace ]
\* the length of s with every run of whitespace made one space, trimmed
CleanedLen(s) ==
  LET gaps == Gaps(s)
  IN Len(Ink(s)) + Cardinality({ k \in DOMAIN gaps : gaps[k] })
\* c has no whitespace but single spaces between other characters
Tidy(c) ==
  /\ \A i \in 1..Len(c) : c[i] \in WhiteSpace => c[i] = " "
  /\ c # <<>> => (c[1] # " " /\ c[Len(c)] # " ")
  /\ \A i \in 1..(Len(c) - 1) : ~(c[i] = " " /\ c[i + 1] = " ")
\* c is the beginning, up to a character that is not whitespace, of s with
\* every run of whitespace made one space and trimmed
StartsCleaned(c, s) ==
  LET ink == Ink(c)
      gaps == Gaps(c)
      all == Gaps(s)
  IN /\ Tidy(c)
     /\ Len(ink) <= Len(Ink(s))
     /\ ink = SubSeq(Ink(s), 1, Len(ink))
     /\ \A k \in DOMAIN gaps : gaps[k] = all[k]
IsCleaned(c, s) == StartsCleaned(c, s) /\ Len(Ink(c)) = Len(Ink(s))

\* C31: the preview of every text entry of the history is the text of the
\* entry with every run of whitespace made one space and trimmed, whole when
\* that has at most 100 characters, its first 97 characters and three dots
\* otherwise; it has at most 100 characters and no whitespace next to
\* whitespace.
C31_PreviewOfCleaned ==
  \A n \in 1..Len(clipboardHistory) :
    LET item == clipboardHistory[n]
        preview == item.preview
        head == SubSeq(preview, 1, 97)
        c == IF head[97] = " " THEN SubSeq(head, 1, 96) ELSE head
    IN item.type \in {"text", "richtext"} =>
         /\ Len(preview) <= 100
         /\ \A i \in 1..(Len(preview) - 1) :
              ~(preview[i] \in WhiteSpace /\ preview[i + 1] \in WhiteSpace)
         /\ IF CleanedLen(item.text) <= 100
            THEN IsCleaned(preview, item.text)
            ELSE /\ Len(preview) = 100
                 /\ SubSeq(preview, 98, 100) = <<".", ".", ".">>
                 /\ StartsCleaned(c, item.text)
                 /\ head[97] = " " => Gaps(item.text)[Len(Ink(c))]

\* an entry whose cleaned text of 106 characters is cut after a space
C31_Witness ==
  /\ clipboardHistory # <<>>
  /\ Len(clipboardHistory[1].text) > 100
  /\ Len(clipboardHistory[1].preview) = 100
  /\ clipboardHistory[1].preview[97] = " "

\* ------------------------------------------------------- stale callbacks
\* C32: the close timer of a selection destroys only the window the
\* selection was made in. The timer fires 2.8 s after the selection, in a
\* window that was loaded: a window it destroys is not one that is still
\* loading nor one that was loaded less than 0.5 s ago.
C32_ClosesOwnSession ==
  [][ (0 \in closeTimers /\ 0 \notin closeTimers' /\ clipboardWindow # 0) =>
        /\ clipboardWindow \notin loads
        /\ windowCreationAge = GraceAge ]_vars

\* C33: the re-check of a blur destroys only the window that lost the
\* focus. The 'blur' handler is registered once the window is loaded and
\* schedules the re-check only 0.5 s after that: a window the re-check
\* destroys has the handlers and was loaded at least 0.5 s ago.
C33_ClosesBlurredWindow ==
  [][ (lastOp'.name = "blurRecheck" /\ lastOp'.out = "closed") =>
        /\ clipboardWindow \in handledWindows
        /\ windowCreationAge = GraceAge ]_vars

\* C34: the catch of a call of showClipboardWindow destroys only the window
\* that call created. When the loadFile() that rejects is the one of a
\* window that was destroyed already, the catch destroys no window.
C34_CleansOwnWindow ==
  [][ (lastOp'.name = "catch" /\ staleLoads' < staleLoads) =>
        liveWindows' = liveWindows ]_vars

\* ------------------------------------------------------------- last seen
\* C35: a poll tick changes the text or the image the monitor saw last only
\* when it emits 'change' with what it read; a tick that emits nothing, the
\* encoding of the image having failed, leaves them as they were.
C35_SeenOnlyWhenEmitted ==
  [][ (/\ lastOp'.name = "checkClipboard"
       /\ <<lastClipboardContent, lastClipboardImage>>' #
            <<lastClipboardContent, lastClipboardImage>>) =>
        lastOp'.data # NoData ]_vars

\* ------------------------------------------------------------- write-back
\* The poller on a clipboard that other programs and the selections of the
\* surface write: a history of two from an earlier run, read back at the
\* start, any entry of it or of what the ticks add being selected.
InitWriteBack ==
  /\ clipboardHistory = PickHistory
  /\ storeHistory = PickHistory
  /\ storeLimit \in {Unset, 2}
  /\ notificationsEnabled = TRUE
  /\ clock = 1
  /\ sysText = NoText /\ sysImage = Image1 /\ sysFormats = BaseFormats(NoText, Image1)
  /\ InitMonitor /\ InitSession /\ InitGhost

NextWriteBack ==
  \/ \E text \in {NoText, TextA, TextRich}, img \in {EmptyImage, Image1, Image2} :
        externalCopy(text, img, FALSE)
  \/ clock < MaxTicks /\ checkClipboard(TRUE, TRUE)
  \/ \E n \in 0..MaxTicks : selectClipboardItem(NumberToString(n), TRUE, TRUE)

SpecWriteBack == InitWriteBack /\ [][NextWriteBack]_vars

\* the clipboard holds what select-clipboard-item writes for item, and
\* nothing else
OnClipboard(item) ==
  /\ ~FileRead
  /\ IF item.type = "image"
     THEN /\ sysText = NoText
          /\ ~isEmpty(sysImage) /\ ~ToPNGThrows(sysImage)
          /\ Base64(toPNG(sysImage)) = item.imageBufferBase64
     ELSE sysText = item.text /\ isEmpty(sysImage)

\* C36: a selection that writes an entry to the clipboard leaves the history
\* with the same length and the same contents, that entry in front and on
\* the clipboard; every tick that reads a clipboard holding the front entry
\* leaves the contents of the history as they are, in the same order, and
\* the front entry on the clipboard, whether it appends it again or not.
C36_WriteBackKeepsHistory ==
  /\ [][ (lastOp'.name = "select" /\ lastOp'.out = "written") =>
          /\ Len(clipboardHistory') = Len(clipboardHistory)
          /\ { ItemContent(clipboardHistory'[k]) : k \in 1..Len(clipboardHistory') } =
               { ItemContent(clipboardHistory[k]) : k \in 1..Len(clipboardHistory) }
          /\ clipboardHistory'[1].id = lastOp'.id
          /\ clipboardHistory'[1] \in { clipboardHistory[k] : k \in 1..Len(clipboardHistory) }
          /\ OnClipboard(clipboardHistory[1])' ]_vars
  /\ [][ (Ticked /\ clipboardHistory # <<>> /\ OnClipboard(clipboardHistory[1])) =>
          /\ Contents(clipboardHistory') = Contents(clipboardHistory)
          /\ OnClipboard(clipboardHistory[1])' ]_vars

\* a tick appended again, under a new id, the entry a selection had moved
\* to the front of a history of three and written to the clipboard
C36_Witness ==
  /\ lastOp.name = "checkClipboard" /\ lastOp.out = "change"
  /\ lastOp.repeat /\ lastOp.deduped /\ ~lastOp.cut
  /\ closeTimers # {}
  /\ Len(clipboardHistory) = 3
  /\ clipboardHistory[1].id = NumberToString(clock)
  /\ OnClipboard(clipboardHistory[1])

\* ------------------------------------------------------- history-updated
\* The history with a window that opens and closes: the poller appends, the
\* surface selects, clears and sets the limit, the tray clears; no store.set
\* throws.
NextSurface ==
  \/ \E text \in {NoText, TextA, TextRich}, img \in {EmptyImage, Image1} :
        externalCopy(text, img, FALSE)
  \/ clock < MaxTicks /\ checkClipboard(TRUE, TRUE)
  \/ hotkey(FALSE)
  \/ \E w \in WindowIds : loadResolves(w)
  \/ closeClipboardWindow(FALSE)
  \/ \E n \in 1..MaxTicks :
        /\ clipboardWindow \in handledWindows
        /\ selectClipboardItem(NumberToString(n), TRUE, TRUE)
  \/ clipboardWindow \in handledWindows /\ clearClipboardHistory(TRUE)
  \/ trayClearHistory(TRUE)
  \/ \E limit \in 1..MaxLimit :
        clipboardWindow \in handledWindows /\ updateHistoryLimit(limit, 0)

SpecSurface == InitFaults /\ [][NextSurface]_vars

\* C37: every step that changes the history while a loaded window is open
\* sends 'history-updated' with the new list to it.
C37_ChangeReachesSurface ==
  [][ (/\ clipboardHistory' # clipboardHistory
       /\ clipboardWindow \in handledWindows
       /\ clipboardWindow' = clipboardWindow) =>
        \E k \in 1..Len(sent') : sent'[k] = HistoryUpdated(clipboardHistory') ]_vars

\* C38: select-clipboard-item with an id that no entry of the history has
\* changes nothing: the history, the store, the clipboard, the monitor, the
\* window and the timers are as they were, and nothing is sent.
C38_UnknownIdNoOp ==
  [][ (/\ lastOp'.name = "select"
       /\ \A k \in 1..Len(clipboardHistory) : clipboardHistory[k].id # lastOp'.id) =>
        /\ UNCHANGED <<storeVars, clock, sysVars, monitorVars, sessionVars>>
        /\ sent' = <<>> ]_vars

\* an id no entry has was selected in a loaded window showing entries,
\* notifications being enabled
C38_Witness ==
  /\ lastOp.name = "select" /\ lastOp.out = "not-found"
  /\ \A k \in 1..Len(clipboardHistory) : clipboardHistory[k].id # lastOp.id
  /\ Len(clipboardHistory) = 2
  /\ clipboardWindow \in handledWindows /\ notificationsEnabled
  /\ closeTimers = {}

\* C39: a selection of an entry of the history whose store.set throws
\* still writes the entry, then in front, to the clipboard and schedules
\* the close of the window.
C39_SelectionSurvivesSetFailure ==
  [][ (lastOp'.name = "select" /\ lastOp'.failed) =>
        /\ clipboardHistory'[1].id = lastOp'.id
        /\ OnClipboard(clipboardHistory[1])'
        /\ CloseDelay \in closeTimers' ]_vars

====
